---- MODULE Spec2Model ----
(***************************************************************************)
(* Model of the mobile computer-use agent loop of stagehand-python:        *)
(* GoogleMobileCUAClient.run_task and the helpers it calls                 *)
(* (src/stagehand/agent/google_mobile_cua.py).                             *)
(*                                                                         *)
(* Texts (reasoning, messages, error strings) are sequences of string      *)
(* fragments: <<>> is None or the empty string (both falsy in Python),     *)
(* <<"a", " ", "b">> is the string "a b".  An f-string is the sequence of  *)
(* its literal and interpolated fragments, so "message contains the error" *)
(* is "the error is one of the fragments".                                 *)
(***************************************************************************)
EXTENDS Integers, Sequences, FiniteSets, TLC

(* ------------------------------ bounds --------------------------------- *)

\* run_task is called with max_steps drawn from 0..MaxSteps.
MaxSteps == 2

\* The model asks for scroll amounts from -MaxScrollAmount to MaxScrollAmount.
MaxScrollAmount == 8

\* The normalizer is given grid coordinates from -GridOver to 1000 + GridOver.
GridOver == 500

\* The device call that fails is one of the first MaxDeviceCalls of an action.
MaxDeviceCalls == 4

\* Histories are up to MaxOver turns longer than MAX_HISTORY_LENGTH.
MaxOver == 3

\* A model turn of a long task carries up to MaxBatch function calls.
MaxBatch == 30

\* A later execution on the same client makes up to MaxRerunSteps steps, after
\* the device delivered EarlierScreenshots screenshots to earlier executions.
MaxRerunSteps == 1
EarlierScreenshots == 60

\* Up to MaxCalls calls are made on one MobileAgent.
MaxCalls == 3

\* Each of two concurrent execute() calls makes up to MaxTaskSteps steps.
MaxTaskSteps == 2

(* ------------------------- program constants --------------------------- *)

MAX_API_RETRIES == 3
RETRY_BASE_DELAY_S == 1
COORDINATE_GRID_SIZE == 1000
MAX_HISTORY_LENGTH == 50
keep_first == 1
keep_recent == 20
max_errors == 5
DEFAULT_LONG_PRESS_DURATION_MS == 500
DEFAULT_SWIPE_DURATION_MS == 300
DEFAULT_PINCH_DURATION_MS == 300

(* ------------------------------ values --------------------------------- *)

None == [none |-> TRUE]

Or(a, b) == IF a # <<>> THEN a ELSE b

RECURSIVE Pow2(_)
Pow2(n) == IF n = 0 THEN 1 ELSE 2 * Pow2(n - 1)

Min(a, b) == IF a < b THEN a ELSE b
Max(a, b) == IF a > b THEN a ELSE b

\* The exceptions the model call can raise (str(e) of each).
Errors == {"timeout", "503"}

\* FinishReason members the provider can report.
NormalFinish == {"FINISH_REASON_UNSPECIFIED", "STOP", "TOOL_CODE"}
FinishReasons == NormalFinish \cup {"MALFORMED_FUNCTION_CALL", "MAX_TOKENS"}

\* Parts of a candidate's content: a text part or a function-call part.
TextPart(t) == [text |-> t, function_call |-> None]
CallPart(n, a) == [text |-> <<>>, function_call |-> [name |-> n, args |-> a]]

TapCall == CallPart("tap_at", [x |-> 1200, y |-> 500])
BackCall == CallPart("go_back", <<>>)
BadArgsCall == CallPart("tap_at", [x |-> 500])
UnsupportedCall == CallPart("zoom", [level |-> 2])
DoneText == TextPart(<<"Done">>)

\* The contents a candidate can carry in the model: no part at all, text
\* only, calls only, text and calls, translatable and dropped calls mixed.
Contents ==
    { <<>>,
      <<DoneText>>,
      <<DoneText, DoneText>>,
      <<TapCall>>,
      <<UnsupportedCall>>,
      <<BadArgsCall>>,
      <<DoneText, TapCall>>,
      <<TapCall, BackCall>>,
      <<UnsupportedCall, TapCall>> }

Usage == [prompt_token_count |-> 1, candidates_token_count |-> 2]

NoCandidates(u) == [candidates |-> <<>>, usage_metadata |-> u]

Candidate(parts, finish) ==
    [content |-> [role |-> "model", parts |-> parts], finish_reason |-> finish]

Response(parts, finish, u) ==
    [candidates |-> <<Candidate(parts, finish)>>, usage_metadata |-> u]

\* The responses the model call can return: no candidate; every content with
\* every finish reason and token counts; some without usage metadata.
Responses ==
    { NoCandidates(u) : u \in {None, Usage} }
    \cup { Response(c, f, Usage) : c \in Contents, f \in FinishReasons }
    \cup { Response(c, "STOP", None) : c \in { <<>>, <<DoneText>>, <<TapCall>> } }

\* What MobileNavigationHandler.perform_action can return.
ActionResults ==
    { [success |-> TRUE, error |-> <<>>],
      [success |-> FALSE, error |-> <<"tap failed">>] }

(* --------------------------- Action Translator ------------------------- *)

_clamp_coordinate(value) == Max(0, Min(COORDINATE_GRID_SIZE, value))

Has(args, k) == k \in DOMAIN args

\* args.get(k, default)
Get(args, k, default) == IF Has(args, k) THEN args[k] ELSE default

\* A mapper returns Raise when it raises (KeyError on a missing argument).
Raise == [raise |-> TRUE]

\* A mapper that reads a missing coordinate as 0.
_map_tap_lenient(args) ==
    [action_type |-> "tap",
     action |-> [type |-> "tap",
                 x |-> _clamp_coordinate(Get(args, "x", 0)),
                 y |-> _clamp_coordinate(Get(args, "y", 0))]]

_map_tap(args) ==
    IF Has(args, "x") /\ Has(args, "y")
    THEN [action_type |-> "tap",
          action |-> [type |-> "tap",
                      x |-> _clamp_coordinate(args.x),
                      y |-> _clamp_coordinate(args.y)]]
    ELSE Raise

_map_double_tap(args) ==
    IF Has(args, "x") /\ Has(args, "y")
    THEN [action_type |-> "double_tap",
          action |-> [type |-> "double_tap",
                      x |-> _clamp_coordinate(args.x),
                      y |-> _clamp_coordinate(args.y)]]
    ELSE Raise

_map_long_press(args) ==
    IF Has(args, "x") /\ Has(args, "y")
    THEN [action_type |-> "long_press",
          action |-> [type |-> "long_press",
                      x |-> _clamp_coordinate(args.x),
                      y |-> _clamp_coordinate(args.y),
                      duration_ms |-> Get(args, "duration_ms",
                                          DEFAULT_LONG_PRESS_DURATION_MS)]]
    ELSE Raise

_map_swipe(args) ==
    IF /\ Has(args, "start_x") /\ Has(args, "start_y")
       /\ Has(args, "end_x") /\ Has(args, "end_y")
    THEN [action_type |-> "swipe",
          action |-> [type |-> "swipe",
                      start_x |-> _clamp_coordinate(args.start_x),
                      start_y |-> _clamp_coordinate(args.start_y),
                      end_x |-> _clamp_coordinate(args.end_x),
                      end_y |-> _clamp_coordinate(args.end_y),
                      duration_ms |-> Get(args, "duration_ms",
                                          DEFAULT_SWIPE_DURATION_MS)]]
    ELSE Raise

_map_type(args) ==
    IF Has(args, "x") /\ Has(args, "y") /\ Has(args, "text")
    THEN [action_type |-> "type",
          action |-> [type |-> "type",
                      x |-> _clamp_coordinate(args.x),
                      y |-> _clamp_coordinate(args.y),
                      text |-> args.text,
                      press_enter_after |-> Get(args, "press_enter", FALSE)]]
    ELSE Raise

_map_go_back(args) ==
    [action_type |-> "function",
     action |-> [type |-> "function", name |-> "navigate_back", arguments |-> None]]

_map_go_home(args) ==
    [action_type |-> "function",
     action |-> [type |-> "function", name |-> "go_home", arguments |-> None]]

_map_open_app(args) ==
    IF Has(args, "app_name")
    THEN [action_type |-> "function",
          action |-> [type |-> "function", name |-> "open_app",
                      arguments |-> [app_id |-> args.app_name]]]
    ELSE Raise

_map_open_url(args) ==
    IF Has(args, "url")
    THEN [action_type |-> "function",
          action |-> [type |-> "function", name |-> "goto",
                      arguments |-> [url |-> args.url]]]
    ELSE Raise

\* The payload carries the key "milliseconds" (seconds are whole in the model).
_map_wait(args) ==
    [action_type |-> "wait",
     action |-> [type |-> "wait", milliseconds |-> Get(args, "seconds", 1) * 1000]]

_map_pinch(args) ==
    IF Has(args, "center_x") /\ Has(args, "center_y") /\ Has(args, "scale")
    THEN [action_type |-> "pinch",
          action |-> [type |-> "pinch",
                      center_x |-> _clamp_coordinate(args.center_x),
                      center_y |-> _clamp_coordinate(args.center_y),
                      scale |-> args.scale,
                      duration_ms |-> DEFAULT_PINCH_DURATION_MS]]
    ELSE Raise

\* scroll_params of _map_scroll; an unknown direction falls back to "down".
scroll_params(direction, amount) ==
    LET center == COORDINATE_GRID_SIZE \div 2
        near_edge == (COORDINATE_GRID_SIZE * 3) \div 10
        far_edge == (COORDINATE_GRID_SIZE * 7) \div 10
    IN  CASE direction = "up" -> <<center, near_edge, center, near_edge + amount>>
          [] direction = "left" -> <<far_edge, center, far_edge - amount, center>>
          [] direction = "right" -> <<near_edge, center, near_edge + amount, center>>
          [] OTHER -> <<center, far_edge, center, far_edge - amount>>

_map_scroll(args) ==
    LET direction == Get(args, "direction", "down")
        amount == Get(args, "amount", 5) * 100
        p == scroll_params(direction, amount)
    IN  [action_type |-> "swipe",
         action |-> [type |-> "swipe",
                     start_x |-> p[1], start_y |-> p[2],
                     end_x |-> p[3], end_y |-> p[4],
                     duration_ms |-> DEFAULT_SWIPE_DURATION_MS]]

\* The names of the dispatch table self._action_mappers.
\* The "required" lists of the function declarations given to the model.
Required ==
    [name \in {"tap_at", "double_tap_at", "long_press_at"} |-> {"x", "y"}]
      @@ [name \in {"swipe"} |-> {"start_x", "start_y", "end_x", "end_y"}]
      @@ [name \in {"type_text_at"} |-> {"x", "y", "text"}]
      @@ [name \in {"go_back", "go_home"} |-> {}]
      @@ [name \in {"open_app"} |-> {"app_name"}]
      @@ [name \in {"open_url"} |-> {"url"}]
      @@ [name \in {"wait"} |-> {"seconds"}]
      @@ [name \in {"pinch"} |-> {"center_x", "center_y", "scale"}]
      @@ [name \in {"scroll"} |-> {"direction"}]

_action_mappers ==
    {"tap_at", "double_tap_at", "long_press_at", "swipe", "type_text_at", "go_back",
     "go_home", "open_app", "open_url", "wait", "pinch", "scroll"}

Mapper(name, args) ==
    CASE name = "tap_at" -> _map_tap(args)
      [] name = "double_tap_at" -> _map_double_tap(args)
      [] name = "long_press_at" -> _map_long_press(args)
      [] name = "swipe" -> _map_swipe(args)
      [] name = "type_text_at" -> _map_type(args)
      [] name = "go_back" -> _map_go_back(args)
      [] name = "go_home" -> _map_go_home(args)
      [] name = "open_app" -> _map_open_app(args)
      [] name = "open_url" -> _map_open_url(args)
      [] name = "wait" -> _map_wait(args)
      [] name = "pinch" -> _map_pinch(args)
      [] name = "scroll" -> _map_scroll(args)

\* TypeAdapter(AgentActionType).validate_python: the payload becomes the model
\* of its "type".  WaitAction has the field "miliseconds" (default 0) and no
\* field "milliseconds", so the payload's key is ignored and the default
\* stays; every other payload of the mappers names fields of its model.
validate_python(payload) ==
    IF payload.type = "wait" THEN [type |-> "wait", miliseconds |-> 0]
    ELSE payload

_map_function_to_action(name, args) ==
    IF name \notin _action_mappers THEN None
    ELSE IF Mapper(name, args) = Raise THEN None
    ELSE [action_type |-> Mapper(name, args).action_type,
          action |-> validate_python(Mapper(name, args).action)]

(* ------------------------- Conversation Manager ------------------------ *)

Instructions == <<"You are a mobile automation agent">>
Instruction == <<"open settings">>

format_screenshot(screenshot_base64) == [inline_data |-> screenshot_base64]

_format_initial_messages(instruction, screenshot_base64) ==
    << [role |-> "user",
        parts |-> <<[text |-> Instructions], [text |-> instruction],
                    format_screenshot(screenshot_base64)>>] >>

\* A history that keeps the turns it had.
ResetHistory_extend(h, initial) == h \o initial

\* Line 385: self.history = [initial_content]
ResetHistory(h, initial) == initial

\* A feedback turn that drops the error of a failed action.
_format_action_feedback_silent(function_name, action_result, screenshot_base64) ==
    [role |-> "user",
     parts |-> << [function_response |->
                     [name |-> function_name,
                      response |-> [error |-> <<>>],
                      data |-> screenshot_base64]] >>]

\* The function-result turn _format_action_feedback appends.  A response
\* without the "error" key is [error |-> <<>>].
_format_action_feedback(function_name, action_result, screenshot_base64) ==
    [role |-> "user",
     parts |-> << [function_response |->
                     [name |-> function_name,
                      response |->
                         [error |-> IF ~action_result.success
                                    THEN Or(action_result.error, <<"Unknown error">>)
                                    ELSE <<>>],
                      data |-> screenshot_base64]] >>]

\* Every turn taken to carry an error.
_has_error_response_any(content) == TRUE

_has_error_response(content) ==
    \E i \in 1..Len(content.parts) :
        /\ "function_response" \in DOMAIN content.parts[i]
        /\ content.parts[i].function_response.response.error # <<>>

\* A cap that is not applied.
Take_all(s, n) == s

\* s[:n]
Take(s, n) == SubSeq(s, 1, Min(n, Len(s)))

\* A history that is never trimmed.
_trim_history_never(h) == h

_trim_history(h) ==
    IF Len(h) <= MAX_HISTORY_LENGTH THEN h
    ELSE LET middle == SubSeq(h, keep_first + 1, Len(h) - keep_recent)
             error_messages == Take(SelectSeq(middle, _has_error_response), max_errors)
         IN  SubSeq(h, 1, keep_first) \o error_messages
               \o SubSeq(h, Len(h) - keep_recent + 1, Len(h))

(* ------------------- _process_provider_response ------------------------ *)

\* reasoning_text after the loop over parts[i..]: text parts joined by " ".
RECURSIVE JoinText(_, _, _)
JoinText(parts, i, reasoning_text) ==
    IF i > Len(parts) THEN reasoning_text
    ELSE JoinText(parts, i + 1,
            IF parts[i].text # <<>>
            THEN (IF reasoning_text = <<>> THEN parts[i].text
                  ELSE reasoning_text \o <<" ">> \o parts[i].text)
            ELSE reasoning_text)

IsCallPart(part) == part.function_call # None

FunctionCalls(parts) ==
    LET withCall == SelectSeq(parts, IsCallPart)
    IN  IF withCall = <<>> THEN <<>>
        ELSE [i \in 1..Len(withCall) |-> withCall[i].function_call]

Translated(fc) == _map_function_to_action(fc.name, fc.args) # None

\* The translatable calls taken from the last to the first.
AgentActions_reversed(function_calls, reasoning_text) ==
    LET kept == SelectSeq(function_calls, Translated)
        n == Len(kept)
    IN  IF kept = <<>> THEN <<>> ELSE
        [i \in 1..n |->
            [action_type |->
                 _map_function_to_action(kept[n + 1 - i].name, kept[n + 1 - i].args).action_type,
             action |->
                 _map_function_to_action(kept[n + 1 - i].name, kept[n + 1 - i].args).action,
             reasoning |-> reasoning_text]]

\* agent_actions: the translatable calls, in order, each carrying the reasoning.
AgentActions(function_calls, reasoning_text) ==
    LET kept == SelectSeq(function_calls, Translated)
    IN  IF kept = <<>> THEN <<>> ELSE
        [i \in 1..Len(kept) |->
            [action_type |-> _map_function_to_action(kept[i].name, kept[i].args).action_type,
             action |-> _map_function_to_action(kept[i].name, kept[i].args).action,
             reasoning |-> reasoning_text]]

\* A final message that ignores the reasoning text.
NoCallsMessage_default(reasoning_text) == <<"No actions from model">>

\* msg = reasoning_text or "No actions from model"
NoCallsMessage(reasoning_text) == Or(reasoning_text, <<"No actions from model">>)

Processed(actions, reasoning, completed, message, info, h) ==
    [agent_actions |-> actions, reasoning |-> reasoning, task_completed |-> completed,
     final_message |-> message, function_info |-> info, history |-> h]

_process_provider_response(response, h) ==
    IF response.candidates = <<>>
    THEN Processed(<<>>, <<"No response from model">>, TRUE, <<"Error: No candidates">>, <<>>, h)
    ELSE
      LET candidate == response.candidates[1]
          h1 == Append(h, candidate.content)
          reasoning_text == JoinText(candidate.content.parts, 1, <<>>)
          function_calls == FunctionCalls(candidate.content.parts)
          finish == candidate.finish_reason
      IN  IF /\ function_calls = <<>>
             /\ reasoning_text = <<>>
             /\ finish = "MALFORMED_FUNCTION_CALL"
          THEN Processed(<<>>, reasoning_text, FALSE, <<>>, <<>>, h1)
          ELSE IF finish \notin {"FINISH_REASON_UNSPECIFIED", "STOP", "TOOL_CODE"}
          THEN Processed(<<>>, reasoning_text, TRUE, <<"Stopped: ", finish>>, <<>>, h1)
          ELSE IF function_calls = <<>>
          THEN Processed(<<>>, reasoning_text, TRUE, NoCallsMessage(reasoning_text), <<>>, h1)
          ELSE Processed(AgentActions(function_calls, reasoning_text), reasoning_text,
                         FALSE, <<>>, function_calls, h1)

(* ------------------------------ state ---------------------------------- *)

VARIABLES
    handler,              \* self.handler is set (TRUE) or None (FALSE)
    max_steps,            \* the max_steps argument of run_task
    pc,                   \* where run_task stands
    screenshots,          \* screenshots the device has delivered so far
    history,              \* self.history
    actions_taken,
    total_input_tokens,
    total_output_tokens,
    step,                 \* the loop variable of "for step in range(max_steps)"
    attempt,              \* model-call attempts made in the current step
    last_error,           \* str(last_error), <<>> for None
    response,             \* the response of the current step, None before it arrives
    agent_actions,
    function_info_list,
    task_completed,
    final_message,
    idx,                  \* index (from 1) of the action being executed
    action_result,        \* what perform_action returned for that action
    result,               \* the AgentResult returned, None before the return
    delays,               \* the asyncio.sleep delays of the current step
    errors,               \* the exceptions the model call raised in the current step
    nAttempts,            \* model-call attempts of the whole invocation
    nResponses,           \* model responses processed by the whole invocation
    nExecuted,            \* actions handed to perform_action in the current step
    everyStepActionable,  \* every step so far got an action-bearing response
    received,             \* usage_metadata of the responses received, in order
    handed                \* the AgentActions handed to perform_action, in order

loopVars == <<step, attempt, last_error, response, delays, errors>>
parsedVars == <<agent_actions, function_info_list, task_completed, final_message>>
execVars == <<idx, action_result, nExecuted, handed>>
usageVars == <<total_input_tokens, total_output_tokens>>
callVars == <<nAttempts, nResponses, everyStepActionable, received>>
argVars == <<handler, max_steps>>

\* The state of the translator-to-device pipeline: one function call of the
\* model is translated and the action is performed on the device.
VARIABLES
    viewport,             \* the Appium client's cached viewport, None when not connected
    fp_low,               \* a float product that is a whole number in exact
                          \* arithmetic comes out just below it (TRUE) or exact
    dpc,                  \* where the pipeline stands
    function_call,        \* the model's function call, None when there is none
    agent_action,         \* the AgentAction handed to perform_action, None before
    performed,            \* the outcome of perform_action, None before
    grid_in,              \* the grid coordinate given to normalize_x / normalize_y
    pixel_out             \* what the normalizer returned for it

deviceVars == <<viewport, fp_low, dpc, function_call, agent_action, performed,
                grid_in, pixel_out>>

taskVars == <<argVars, pc, screenshots, history, actions_taken, usageVars, loopVars,
              parsedVars, execVars, result, callVars>>

\* A MobileAgent and the calls made on it.
VARIABLES
    _connected,           \* self._connected
    appium_client,        \* self.appium_client: None or a client with or without a driver
    navigation_handler,   \* self.navigation_handler, None or set
    cua_client,           \* self.cua_client, None or set
    api_key,              \* an API key is configured (argument or GEMINI_API_KEY)
    open_sessions,        \* Appium driver sessions created and not quit
    ncalls,               \* calls made on the agent so far
    last_call,            \* the last call: its name, its exception, its I/O calls
    ever_connected        \* the agent has been connected at some time

agentVars == <<_connected, appium_client, navigation_handler, cua_client, api_key,
               open_sessions, ncalls, last_call, ever_connected>>

\* connect_aws_agentcore_browser and cleanup_browser_resources.
VARIABLES
    bpc,                  \* "idle", "connected", "failed" or "cleaned"
    held,                 \* the resources acquired, or given to the cleanup
    failing,              \* the resources whose close/stop/removal raises
    attempted,            \* the releases attempted, in order
    raised,               \* what the caller receives; <<>> when the call returned
    failed_at             \* the stage of the connect that failed, or "none"

browserVars == <<bpc, held, failing, attempted, raised, failed_at>>

\* Two execute() calls on one connected MobileAgent.
VARIABLES
    tasks,                \* per task, where its run_task coroutine stands
    shared_history,       \* self.history of the one GoogleMobileCUAClient
    contents,             \* per task, the history snapshot of its last model call
    steps_made            \* per task, the steps it has completed

sessionVars == <<tasks, shared_history, contents, steps_made>>

vars == <<taskVars, deviceVars, agentVars, browserVars, sessionVars>>

\* The locals and counters of run_task before its first step.
TaskFresh ==
    /\ screenshots = 0
    /\ actions_taken = <<>>
    /\ total_input_tokens = 0
    /\ total_output_tokens = 0
    /\ step = 0
    /\ attempt = 0
    /\ last_error = <<>>
    /\ response = None
    /\ agent_actions = <<>>
    /\ function_info_list = <<>>
    /\ task_completed = FALSE
    /\ final_message = <<>>
    /\ idx = 0
    /\ action_result = None
    /\ result = None
    /\ delays = <<>>
    /\ errors = <<>>
    /\ nAttempts = 0
    /\ nResponses = 0
    /\ nExecuted = 0
    /\ everyStepActionable = TRUE
    /\ received = <<>>
    /\ handed = <<>>

\* run_task has not been called.
TaskStart ==
    /\ pc = "start"
    /\ history = <<>>
    /\ TaskFresh

\* The pipeline outside run_task is not in use.
DeviceIdle ==
    /\ viewport = None
    /\ fp_low = FALSE
    /\ dpc = "idle"
    /\ function_call = None
    /\ agent_action = None
    /\ performed = None
    /\ grid_in = 0
    /\ pixel_out = 0

\* MobileAgent.__init__: no component yet, not connected.
AgentFresh ==
    /\ _connected = FALSE
    /\ appium_client = None
    /\ navigation_handler = None
    /\ cua_client = None
    /\ open_sessions = 0
    /\ ncalls = 0
    /\ last_call = None
    /\ ever_connected = FALSE

\* No call is made on the agent.
AgentIdle == AgentFresh /\ api_key = FALSE

\* No browser connect or cleanup was called.
BrowserIdle ==
    /\ bpc = "idle"
    /\ held = {}
    /\ failing = {}
    /\ attempted = <<>>
    /\ raised = <<>>
    /\ failed_at = "none"

TaskIds == {1, 2}

\* No execute() was called on the agent.
SessionIdle ==
    /\ tasks = [t \in TaskIds |-> "idle"]
    /\ shared_history = <<>>
    /\ contents = [t \in TaskIds |-> <<>>]
    /\ steps_made = [t \in TaskIds |-> 0]

Init ==
    /\ handler \in BOOLEAN
    /\ max_steps \in 0..MaxSteps
    /\ DeviceIdle
    /\ AgentIdle
    /\ BrowserIdle
    /\ SessionIdle
    /\ pc = "start"
    /\ screenshots = 0
    /\ history = <<>>
    /\ actions_taken = <<>>
    /\ total_input_tokens = 0
    /\ total_output_tokens = 0
    /\ step = 0
    /\ attempt = 0
    /\ last_error = <<>>
    /\ response = None
    /\ agent_actions = <<>>
    /\ function_info_list = <<>>
    /\ task_completed = FALSE
    /\ final_message = <<>>
    /\ idx = 0
    /\ action_result = None
    /\ result = None
    /\ delays = <<>>
    /\ errors = <<>>
    /\ nAttempts = 0
    /\ nResponses = 0
    /\ nExecuted = 0
    /\ everyStepActionable = TRUE
    /\ received = <<>>
    /\ handed = <<>>

(* ------------------------------ run_task ------------------------------- *)

AgentResult(actions, message, completed, tin, tout) ==
    [actions |-> actions, message |-> message, completed |-> completed,
     usage |-> [input_tokens |-> tin, output_tokens |-> tout]]

\* A loop that runs one step too many.
InRange_inclusive(s, n) == s <= n

\* "for step in range(max_steps)": the loop body runs for this value of step.
InRange(s, n) == s < n

\* A retry loop that makes one attempt too many.
RetryInRange_inclusive(a) == a <= MAX_API_RETRIES

\* "for attempt in range(MAX_API_RETRIES)", attempt counted from 0.
RetryInRange(a) == a < MAX_API_RETRIES

\* A backoff that does not grow.
RetryDelay_flat(a) == RETRY_BASE_DELAY_S

\* delay = RETRY_BASE_DELAY_S * (2 ** attempt), attempt counted from 0.
RetryDelay(a) == RETRY_BASE_DELAY_S * Pow2(a)

ApiErrorResult(actions, error, tin, tout) ==
    AgentResult(actions,
                <<"API error after ", ToString(MAX_API_RETRIES), " retries: ">> \o error,
                FALSE, tin, tout)

CompletedResult(actions, message, tin, tout) ==
    AgentResult(actions, Or(message, <<"Task completed">>), TRUE, tin, tout)

NoActionsResult(actions, message, tin, tout) ==
    AgentResult(actions, Or(message, <<"No further actions">>), FALSE, tin, tout)

\* Budget exhaustion reported as a completed task.
MaxStepsResult_completed(actions, tin, tout) ==
    [actions |-> actions, message |-> <<"Max steps reached">>, completed |-> TRUE,
     usage |-> [input_tokens |-> tin, output_tokens |-> tout]]

MaxStepsResult(actions, tin, tout) ==
    AgentResult(actions, <<"Max steps reached">>, FALSE, tin, tout)

\* A counter that keeps the last response's count only.
AddUsage_last(total, r, count) ==
    IF r.usage_metadata # None THEN r.usage_metadata[count] ELSE 0

\* Lines 801-805: total += getattr(response.usage_metadata, count, 0) when the
\* response has usage metadata.
AddUsage(total, r, count) ==
    total + (IF r.usage_metadata # None THEN r.usage_metadata[count] ELSE 0)

\* An action list that records nothing.
Record_nothing(actions, a) == actions

\* Lines 820-821: "if agent_action.action: actions_taken.append(...)".
Record(actions, a) ==
    IF a.action # None THEN Append(actions, a.action) ELSE actions

\* The head of the step loop for step value s, history h and usage (tin, tout):
\* either the body starts (trim, response = None, last_error = None) or the
\* loop is exhausted and run_task returns "Max steps reached".
LoopHead(s, h, acts, tin, tout) ==
    IF InRange(s, max_steps)
    THEN /\ pc' = "model_call"
         /\ step' = s
         /\ history' = _trim_history(h)
         /\ attempt' = 0
         /\ last_error' = <<>>
         /\ response' = None
         /\ delays' = <<>>
         /\ errors' = <<>>
         /\ nExecuted' = 0
         /\ result' = result
    ELSE /\ pc' = "returned"
         /\ history' = h
         /\ result' = MaxStepsResult(acts, tin, tout)
         /\ UNCHANGED <<loopVars, nExecuted>>

\* The checks after the action loop of a step (lines 839-863) for the response
\* r parsed as p, then the next step.
StepEnd(r, p, h, acts, tin, tout) ==
    IF p.task_completed
    THEN /\ pc' = "returned"
         /\ history' = h
         /\ response' = r
         /\ result' = CompletedResult(acts, p.final_message, tin, tout)
         /\ UNCHANGED <<step, attempt, last_error, delays, errors, nExecuted>>
    ELSE IF p.agent_actions = <<>> /\ ~p.task_completed
    THEN /\ pc' = "returned"
         /\ history' = h
         /\ response' = r
         /\ result' = NoActionsResult(acts, p.final_message, tin, tout)
         /\ UNCHANGED <<step, attempt, last_error, delays, errors, nExecuted>>
    ELSE LoopHead(step + 1, h, acts, tin, tout)

\* What the claims call an action-bearing response: a candidate with a normal
\* finish reason and at least one function call the translator accepts.
Actionable(r) ==
    /\ r.candidates # <<>>
    /\ r.candidates[1].finish_reason \in NormalFinish
    /\ \E i \in 1..Len(r.candidates[1].content.parts) :
          /\ r.candidates[1].content.parts[i].function_call # None
          /\ Translated(r.candidates[1].content.parts[i].function_call)

\* run_task without a handler (lines 727-734).
RunTaskNoHandler ==
    /\ pc = "start"
    /\ ~handler
    /\ pc' = "returned"
    /\ result' = AgentResult(<<>>, <<"Error: Handler not set">>, FALSE, 0, 0)
    /\ UNCHANGED <<argVars, screenshots, history, actions_taken, usageVars, loopVars,
                   parsedVars, execVars, callVars>>

\* Lines 736-745: the initial screenshot is delivered, the history is reset to
\* the initial turn and the step loop is entered.
InitialScreenshot ==
    /\ pc = "start"
    /\ handler
    /\ screenshots' = screenshots + 1
    /\ actions_taken' = <<>>
    /\ total_input_tokens' = 0
    /\ total_output_tokens' = 0
    /\ LoopHead(0,
                ResetHistory(history, _format_initial_messages(Instruction, screenshots + 1)),
                <<>>, 0, 0)
    /\ UNCHANGED <<argVars, parsedVars, idx, action_result, handed, callVars>>

\* Line 737: handler.get_screenshot_base64() raises; nothing catches it.
InitialScreenshotRaises ==
    /\ pc = "start"
    /\ handler
    /\ pc' = "raised"
    /\ UNCHANGED <<argVars, screenshots, history, actions_taken, usageVars, loopVars,
                   parsedVars, execVars, result, callVars>>

\* Lines 756-796: one attempt of the model call raises e.
ModelCallRaises(e) ==
    /\ pc = "model_call"
    /\ RetryInRange(attempt)
    /\ nAttempts' = nAttempts + 1
    /\ attempt' = attempt + 1
    /\ last_error' = <<e>>
    /\ errors' = Append(errors, e)
    /\ delays' = IF attempt < MAX_API_RETRIES - 1
                 THEN Append(delays, RetryDelay(attempt)) ELSE delays
    /\ IF RetryInRange(attempt + 1)
       THEN /\ UNCHANGED <<pc, result, everyStepActionable>>
       ELSE /\ pc' = "returned"
            /\ everyStepActionable' = FALSE
            /\ result' = ApiErrorResult(actions_taken, <<e>>,
                                        total_input_tokens, total_output_tokens)
    /\ UNCHANGED <<argVars, screenshots, history, actions_taken, usageVars, step,
                   response, parsedVars, execVars, nResponses, received>>

\* Lines 756-771 and 798-863: one attempt of the model call returns r; usage is
\* added, r is parsed, and either the action loop starts or the step ends.
ModelCallReturns(r) ==
    /\ pc = "model_call"
    /\ RetryInRange(attempt)
    /\ LET p == _process_provider_response(r, history)
           tin == AddUsage(total_input_tokens, r, "prompt_token_count")
           tout == AddUsage(total_output_tokens, r, "candidates_token_count")
       IN  /\ nAttempts' = nAttempts + 1
           /\ nResponses' = nResponses + 1
           /\ received' = Append(received, r.usage_metadata)
           /\ everyStepActionable' = (everyStepActionable /\ Actionable(r))
           /\ total_input_tokens' = tin
           /\ total_output_tokens' = tout
           /\ agent_actions' = p.agent_actions
           /\ function_info_list' = p.function_info
           /\ task_completed' = p.task_completed
           /\ final_message' = p.final_message
           /\ IF p.agent_actions # <<>>
              THEN /\ pc' = "perform_action"
                   /\ idx' = 1
                   /\ history' = p.history
                   /\ response' = r
                   /\ attempt' = attempt + 1
                   /\ UNCHANGED <<step, last_error, delays, errors, nExecuted, result>>
              ELSE /\ StepEnd(r, p, p.history, actions_taken, tin, tout)
                   /\ UNCHANGED idx
    /\ UNCHANGED <<argVars, screenshots, actions_taken, action_result, handed>>

\* Lines 819-826: the action is recorded and handler.perform_action returns res.
PerformAction(res) ==
    /\ pc = "perform_action"
    /\ actions_taken' = Record(actions_taken, agent_actions[idx])
    /\ handed' = Append(handed, agent_actions[idx])
    /\ action_result' = res
    /\ nExecuted' = nExecuted + 1
    /\ pc' = "screenshot"
    /\ UNCHANGED <<argVars, screenshots, history, usageVars, loopVars, parsedVars,
                   idx, result, callVars>>

Parsed == [agent_actions |-> agent_actions, task_completed |-> task_completed,
           final_message |-> final_message]

\* Lines 828-863: the screenshot after the action is delivered, the feedback
\* turn is appended, and the next action starts or the step ends.
Screenshot ==
    /\ pc = "screenshot"
    /\ screenshots' = screenshots + 1
    /\ LET h == Append(history,
                       _format_action_feedback(function_info_list[idx].name,
                                               action_result, screenshots + 1))
       IN  IF idx < Len(agent_actions)
           THEN /\ idx' = idx + 1
                /\ pc' = "perform_action"
                /\ history' = h
                /\ UNCHANGED <<loopVars, nExecuted, result>>
           ELSE /\ StepEnd(response, Parsed, h, actions_taken,
                           total_input_tokens, total_output_tokens)
                /\ UNCHANGED idx
    /\ UNCHANGED <<argVars, actions_taken, usageVars, parsedVars, action_result, handed,
                   callVars>>

\* Line 829: handler.get_screenshot_base64() raises; nothing catches it.
ScreenshotRaises ==
    /\ pc = "screenshot"
    /\ pc' = "raised"
    /\ UNCHANGED <<argVars, screenshots, history, actions_taken, usageVars, loopVars,
                   parsedVars, execVars, result, callVars>>

Next ==
    /\ UNCHANGED <<deviceVars, agentVars, browserVars, sessionVars>>
    /\ \/ RunTaskNoHandler
       \/ InitialScreenshot
       \/ InitialScreenshotRaises
       \/ \E e \in Errors : ModelCallRaises(e)
       \/ \E r \in Responses : ModelCallReturns(r)
       \/ \E res \in ActionResults : PerformAction(res)
       \/ Screenshot
       \/ ScreenshotRaises

Spec == Init /\ [][Next]_vars

\* The event loop keeps scheduling the coroutine and every awaited call (model
\* call, sleep, device call) ends by returning or raising.
FairSpec == Spec /\ WF_vars(Next)

(* ------------------------- float arithmetic ---------------------------- *)

\* Rounding to the nearest integer, halves upward.
Trunc_nearest(n, d) == (2 * n + d) \div (2 * d)

\* int() of the rational n / d (d > 0): truncation toward zero.
Trunc(n, d) == IF n >= 0 THEN n \div d ELSE 0 - ((0 - n) \div d)

\* n / d is a binary fraction, so its double is exact.
Dyadic(n, d) == \E k \in 0..10 : (n * Pow2(k)) % d = 0

\* int() of a double product whose exact value is n / d.  A value that is
\* not a whole number truncates as in exact arithmetic (the rounding error is
\* far smaller than 1 / d).  A whole number computed from an inexact factor
\* can come out one ulp below in magnitude, and int() then gives the next
\* integer toward zero: 570 / 1000 * 100 is 56.99999999999999.  Which
\* products do depends on the bits; fp_low chooses.
FloatInt(n, d, exactFactor) ==
    IF fp_low /\ ~exactFactor /\ n % d = 0 /\ n # 0
    THEN (IF n > 0 THEN n \div d - 1 ELSE 1 - ((0 - n) \div d))
    ELSE Trunc(n, d)

(* ------------------------ Coordinate Normalizer ------------------------ *)

\* Viewports of DEVICE_PROFILES: iphone_15_pro and samsung_galaxy_s24.
Viewports == { [width |-> 393, height |-> 852], [width |-> 360, height |-> 780] }

\* int(x / COORDINATE_GRID_SIZE * viewport_width)
normalize_x(x) ==
    FloatInt(x * viewport.width, COORDINATE_GRID_SIZE, Dyadic(x, COORDINATE_GRID_SIZE))

normalize_y(y) ==
    FloatInt(y * viewport.height, COORDINATE_GRID_SIZE, Dyadic(y, COORDINATE_GRID_SIZE))

normalize_coordinates(x, y) == <<normalize_x(x), normalize_y(y)>>

(* --------------------------- Action Executor --------------------------- *)

\* str(e) of the RuntimeErrors of AppiumClient and of what the driver raises.
NotConnectedError == <<"Not connected to Appium. Call connect() first.">>
ViewportError == <<"Viewport not initialized. Call connect() first.">>
DeviceErrors == { <<"session lost">> }

Success == [success |-> TRUE, error |-> <<>>]
Failure(e) == [success |-> FALSE, error |-> e]

\* How a call ends: it returns result or raises exception; calls are the
\* device-level calls it started, in order.
Returned(calls, res) ==
    [calls |-> calls, raised |-> FALSE, exception |-> <<>>, result |-> res]
Raised(calls, e) ==
    [calls |-> calls, raised |-> TRUE, exception |-> e, result |-> None]

\* Pointer actions of an ActionBuilder; a pause lasts num / den seconds.
Move(x, y) == [kind |-> "move", x |-> x, y |-> y]
Down == [kind |-> "down"]
Up == [kind |-> "up"]
Pause(num, den) == [kind |-> "pause", num |-> num, den |-> den]

\* Device-level calls.
Touch(pointer) == [op |-> "execute_touch_action", pointer |-> pointer]
MultiTouch(gesture, fingers) == [op |-> "perform", gesture |-> gesture, fingers |-> fingers]
SendKeys(text) == [op |-> "send_keys", text |-> text]
Sleep(num, den) == [op |-> "sleep", num |-> num, den |-> den]
Call(op) == [op |-> op]
CallWith(op, arg) == [op |-> op, arg |-> arg]

\* The calls of script are made in order on the Appium client.  Without a
\* driver the first client call raises; otherwise call number fail raises e
\* (asyncio.sleep does not fail, hide_keyboard swallows the exception).
Run(script, fail, e) ==
    LET client == { i \in 1..Len(script) : script[i].op # "sleep" }
        first == CHOOSE i \in client : \A j \in client : i <= j
    IN  IF viewport = None /\ client # {}
        THEN Raised(SubSeq(script, 1, first - 1), NotConnectedError)
        ELSE IF fail \in client /\ script[fail].op # "hide_keyboard"
        THEN Raised(SubSeq(script, 1, fail), e)
        ELSE Returned(script, Success)

\* move -> press -> pause -> release
TapPointer(p, num, den) == <<Move(p[1], p[2]), Down, Pause(num, den), Up>>

\* A double tap that does not release between its two presses.
DoubleTapPointer_held(p) ==
    <<Move(p[1], p[2]), Down, Pause(5, 100), Pause(1, 10), Down, Pause(5, 100), Up>>

DoubleTapPointer(p) ==
    <<Move(p[1], p[2]), Down, Pause(5, 100), Up, Pause(1, 10), Down, Pause(5, 100), Up>>

_perform_tap(action, fail, e) ==
    IF viewport = None THEN Raised(<<>>, ViewportError)
    ELSE LET duration_ms == IF Has(action, "duration_ms") /\ action.duration_ms # 0
                            THEN action.duration_ms ELSE 50
         IN  Run(<<Touch(TapPointer(normalize_coordinates(action.x, action.y),
                                    duration_ms, 1000))>>, fail, e)

_perform_tap_from_click(action, fail, e) ==
    IF viewport = None THEN Raised(<<>>, ViewportError)
    ELSE Run(<<Touch(TapPointer(normalize_coordinates(action.x, action.y), 5, 100))>>,
             fail, e)

_perform_double_tap(action, fail, e) ==
    IF viewport = None THEN Raised(<<>>, ViewportError)
    ELSE Run(<<Touch(DoubleTapPointer(normalize_coordinates(action.x, action.y)))>>,
             fail, e)

_perform_double_tap_from_click(action, fail, e) ==
    IF viewport = None THEN Raised(<<>>, ViewportError)
    ELSE Run(<<Touch(DoubleTapPointer(normalize_coordinates(action.x, action.y)))>>,
             fail, e)

_perform_long_press(action, fail, e) ==
    IF viewport = None THEN Raised(<<>>, ViewportError)
    ELSE Run(<<Touch(TapPointer(normalize_coordinates(action.x, action.y),
                                action.duration_ms, 1000))>>, fail, e)

\* steps = max(int(duration_s * 60), 10)
SwipeSteps(duration_ms) ==
    Max(FloatInt(duration_ms * 60, 1000, Dyadic(duration_ms, 1000)), 10)

\* A coordinate that stops short of the interpolated point.
Interpolate_short(start, end, i, steps) ==
    Trunc(start * steps + (end - start) * (i - 1), steps)

\* int(start + (end - start) * progress) with progress = i / steps.
Interpolate(start, end, i, steps) ==
    LET whole == (start * steps + (end - start) * i) \div steps
    IN  IF /\ fp_low /\ ~Dyadic(i, steps)
           /\ ((end - start) * i) % steps = 0 /\ end # start
        THEN (IF whole > 0 THEN whole - 1 ELSE IF whole < 0 THEN whole + 1 ELSE 0)
        ELSE Trunc(start * steps + (end - start) * i, steps)

\* The body of "for i in range(1, steps + 1)" from i on: a move and a pause.
RECURSIVE Moves(_, _, _, _, _, _)
Moves(start, end, steps, num, den, i) ==
    IF i > steps THEN <<>>
    ELSE <<Move(Interpolate(start[1], end[1], i, steps),
                Interpolate(start[2], end[2], i, steps)),
           Pause(num, den)>>
         \o Moves(start, end, steps, num, den, i + 1)

_perform_swipe(action, fail, e) ==
    IF viewport = None THEN Raised(<<>>, ViewportError)
    ELSE LET start == normalize_coordinates(action.start_x, action.start_y)
             end == normalize_coordinates(action.end_x, action.end_y)
             steps == SwipeSteps(action.duration_ms)
         IN  Run(<<Touch(<<Move(start[1], start[2]), Down>>
                         \o Moves(start, end, steps, action.duration_ms, 1000 * steps, 1)
                         \o <<Up>>)>>, fail, e)

\* A finger of a two-finger gesture: move, press, move over duration_ms, release.
Finger(x0, y0, x1, y1, duration_ms) ==
    <<[kind |-> "move", x |-> x0, y |-> y0, duration |-> 0], Down,
      [kind |-> "move", x |-> x1, y |-> y1, duration |-> duration_ms], Up>>

\* scale is in hundredths (50 is 0.5); base_distance is 100 pixels.
_perform_pinch(action, fail, e) ==
    IF viewport = None THEN Raised(<<>>, ViewportError)
    ELSE LET c == normalize_coordinates(action.center_x, action.center_y)
             scale == action.scale
             start_distance == IF scale < 100 THEN 100
                               ELSE FloatInt(100 * 100, scale, Dyadic(scale, 100))
             end_distance == IF scale < 100
                             THEN FloatInt(100 * scale, 100, Dyadic(scale, 100))
                             ELSE 100
         IN  Run(<<MultiTouch("pinch",
                      <<Finger(c[1] - start_distance, c[2], c[1] - end_distance, c[2],
                               action.duration_ms),
                        Finger(c[1] + start_distance, c[2], c[1] + end_distance, c[2],
                               action.duration_ms)>>)>>, fail, e)

\* The fingers start 80 pixels left and right of the centre and end on the
\* circle at the angle; the end points are left as the angle.
_perform_rotate(action, fail, e) ==
    IF viewport = None THEN Raised(<<>>, ViewportError)
    ELSE LET c == normalize_coordinates(action.center_x, action.center_y)
         IN  Run(<<MultiTouch("rotate",
                      <<[start |-> <<c[1] + 80, c[2]>>, angle |-> action.angle,
                         duration |-> action.duration_ms],
                        [start |-> <<c[1] - 80, c[2]>>, angle |-> action.angle,
                         duration |-> action.duration_ms]>>)>>, fail, e)

\* Focus tap and keyboard delay when both coordinates are given, then the
\* text, then Enter when asked for.
\* Typing that sends the newline together with the text.
_perform_type_joined(action, fail, e) ==
    LET focus == Has(action, "x") /\ Has(action, "y")
    IN  IF focus /\ viewport = None THEN Raised(<<>>, ViewportError)
        ELSE Run((IF focus
                  THEN <<Touch(TapPointer(normalize_coordinates(action.x, action.y),
                                          5, 100)),
                         Sleep(2, 10)>>
                  ELSE <<>>)
                 \o <<[op |-> "send_keys",
                       text |-> <<action.text, Get(action, "press_enter_after", FALSE)>>]>>,
                 fail, e)

_perform_type(action, fail, e) ==
    LET focus == Has(action, "x") /\ Has(action, "y")
        enter == IF Get(action, "press_enter_after", FALSE)
                 THEN <<SendKeys("\n")>> ELSE <<>>
    IN  IF focus /\ viewport = None THEN Raised(<<>>, ViewportError)
        ELSE Run((IF focus
                  THEN <<Touch(TapPointer(normalize_coordinates(action.x, action.y),
                                          5, 100)),
                         Sleep(2, 10)>>
                  ELSE <<>>)
                 \o <<SendKeys(action.text)>> \o enter, fail, e)

_perform_scroll(action, fail, e) ==
    IF viewport = None THEN Raised(<<>>, ViewportError)
    ELSE LET start == normalize_coordinates(action.x, action.y)
             end == <<start[1] - Get(action, "scroll_x", 0),
                      start[2] - Get(action, "scroll_y", 0)>>
         IN  Run(<<Touch(<<Move(start[1], start[2]), Down>>
                         \o Moves(start, end, 10, 3, 100, 1)
                         \o <<Up>>)>>, fail, e)

\* duration_s = (action.miliseconds or 1000) / 1000
_perform_wait(action, fail, e) ==
    Run(<<Sleep(IF Get(action, "miliseconds", 0) # 0 THEN action.miliseconds ELSE 1000,
                1000)>>, fail, e)

_perform_screenshot(action, fail, e) == Returned(<<>>, Success)

_perform_function(action, fail, e) ==
    LET name == action.name
        args == action.arguments
    IN  IF name = "goto" /\ args # None /\ Has(args, "url")
        THEN Run(<<CallWith("open_url", args.url)>>, fail, e)
        ELSE IF name = "navigate_back" THEN Run(<<Call("press_back")>>, fail, e)
        ELSE IF name = "go_home" THEN Run(<<Call("press_home")>>, fail, e)
        ELSE IF name = "open_app"
        THEN (IF args # None /\ (Has(args, "app_id") \/ Has(args, "url"))
              THEN Run(<<CallWith("launch_app",
                                  IF Has(args, "app_id") THEN args.app_id ELSE args.url)>>,
                       fail, e)
              ELSE Returned(<<>>, Failure(<<"Missing app_id for open_app">>)))
        ELSE IF name = "hide_keyboard" THEN Run(<<Call("hide_keyboard")>>, fail, e)
        ELSE Returned(<<>>, Failure(<<"Unsupported function: ", name>>))

\* The action types perform_action dispatches on.
ActionTypes ==
    {"tap", "double_tap", "long_press", "swipe", "pinch", "rotate", "type", "scroll",
     "wait", "screenshot", "function", "click", "double_click"}

\* An unknown type reported as done.
UnsupportedResult_success(action_type) == Success

UnsupportedResult(action_type) == Failure(<<"Unsupported action type: ", action_type>>)

\* The body of the try of perform_action.
dispatch(action, fail, e) ==
    LET action_model == action.action
        action_type == action.action_type
    IN  CASE action_type = "tap" -> _perform_tap(action_model, fail, e)
          [] action_type = "double_tap" -> _perform_double_tap(action_model, fail, e)
          [] action_type = "long_press" -> _perform_long_press(action_model, fail, e)
          [] action_type = "swipe" -> _perform_swipe(action_model, fail, e)
          [] action_type = "pinch" -> _perform_pinch(action_model, fail, e)
          [] action_type = "rotate" -> _perform_rotate(action_model, fail, e)
          [] action_type = "type" -> _perform_type(action_model, fail, e)
          [] action_type = "scroll" -> _perform_scroll(action_model, fail, e)
          [] action_type = "wait" -> _perform_wait(action_model, fail, e)
          [] action_type = "screenshot" -> _perform_screenshot(action_model, fail, e)
          [] action_type = "function" -> _perform_function(action_model, fail, e)
          [] action_type = "click" -> _perform_tap_from_click(action_model, fail, e)
          [] action_type = "double_click" ->
                 _perform_double_tap_from_click(action_model, fail, e)
          [] OTHER -> Returned(<<>>, UnsupportedResult(action_type))

\* An exception that is let through.
Catch_reraise(outcome) == outcome

\* except Exception as e: return ActionExecutionResult(success=False, error=str(e))
\* (the outcome keeps the exception that was caught)
Catch(outcome) ==
    IF outcome.raised
    THEN [outcome EXCEPT !.raised = FALSE, !.result = Failure(outcome.exception)]
    ELSE outcome

perform_action(action, fail, e) == Catch(dispatch(action, fail, e))

(* ------------------ the translator-to-device pipeline ------------------ *)

\* Coordinates the model can send: off the grid on both sides, the corners,
\* the centre.
CoordSamples == {0 - 100, 0, 500, 1000, 1500}

Directions == {"down", "up", "left", "right", "sideways"}

FunctionCall(n, a) == [name |-> n, args |-> a]

\* The function calls of the model: every function of the tool schema with
\* in-range and out-of-range arguments, a missing argument, an unknown name.
FunctionCallInputs ==
    { FunctionCall(n, [x |-> x, y |-> y]) :
          n \in {"tap_at", "double_tap_at", "long_press_at"},
          x \in CoordSamples, y \in CoordSamples }
    \cup { FunctionCall("type_text_at",
                        [x |-> x, y |-> 500, text |-> "hi", press_enter |-> b]) :
               x \in CoordSamples, b \in BOOLEAN }
    \cup { FunctionCall("swipe",
                        [start_x |-> 250, start_y |-> 750, end_x |-> x, end_y |-> 250]) :
               x \in CoordSamples }
    \cup { FunctionCall("swipe",
                        [start_x |-> 250, start_y |-> 750, end_x |-> 750, end_y |-> 250,
                         duration_ms |-> d]) : d \in {0, 1000} }
    \cup { FunctionCall("scroll", [direction |-> d, amount |-> a]) :
               d \in Directions, a \in (0 - MaxScrollAmount)..MaxScrollAmount }
    \cup { FunctionCall("pinch", [center_x |-> x, center_y |-> 500, scale |-> sc]) :
               x \in CoordSamples, sc \in {50, 200} }
    \cup { FunctionCall("scroll", <<>>), FunctionCall("go_back", <<>>),
           FunctionCall("go_home", <<>>), FunctionCall("wait", <<>>),
           FunctionCall("wait", [seconds |-> 2]),
           FunctionCall("open_app", [app_name |-> "com.android.settings"]),
           FunctionCall("open_url", [url |-> "https://example.com"]),
           FunctionCall("tap_at", [x |-> 500]), FunctionCall("open_app", <<>>),
           FunctionCall("zoom", [level |-> 2]) }

Act(t, m) == [action_type |-> t, action |-> m]

\* The AgentActions a caller hands to perform_action directly: every
\* recognized type, coordinates on and off the grid, and unrecognized types.
DirectActions ==
    { Act(t, [type |-> t, x |-> x, y |-> 500]) :
          t \in {"tap", "double_tap", "click", "double_click"}, x \in CoordSamples }
    \cup { Act("tap", [type |-> "tap", x |-> 500, y |-> 500, duration_ms |-> d]) :
               d \in {0, 80} }
    \cup { Act("long_press", [type |-> "long_press", x |-> 500, y |-> 500,
                              duration_ms |-> d]) : d \in {0, 500} }
    \cup { Act("swipe", [type |-> "swipe", start_x |-> 250, start_y |-> 750,
                         end_x |-> x, end_y |-> 250, duration_ms |-> d]) :
               x \in CoordSamples \cup {750}, d \in {0 - 100, 0, 300, 1000} }
    \cup { Act("pinch", [type |-> "pinch", center_x |-> 500, center_y |-> 500,
                         scale |-> sc, duration_ms |-> 300]) : sc \in {50, 57, 200} }
    \cup { Act("scroll", [type |-> "scroll", x |-> 500, y |-> 500,
                          scroll_x |-> sx, scroll_y |-> sy]) :
               sx \in {0, 0 - 100}, sy \in {0, 200} }
    \cup { Act("wait", [type |-> "wait", miliseconds |-> ms]) : ms \in {0, 2000} }
    \cup { Act("function", [type |-> "function", name |-> n, arguments |-> None]) :
               n \in {"navigate_back", "go_home", "open_app", "hide_keyboard",
                      "goto", "reload"} }
    \cup { Act("rotate", [type |-> "rotate", center_x |-> 500, center_y |-> 500,
                          angle |-> 90, duration_ms |-> 300]),
           Act("type", [type |-> "type", text |-> "hi", x |-> 500, y |-> 500,
                        press_enter_after |-> TRUE]),
           Act("type", [type |-> "type", text |-> "hi", press_enter_after |-> FALSE]),
           Act("screenshot", [type |-> "screenshot"]),
           Act("function", [type |-> "function", name |-> "goto",
                            arguments |-> [url |-> "https://example.com"]]),
           Act("function", [type |-> "function", name |-> "open_app",
                            arguments |-> [app_id |-> "com.android.settings"]]),
           Act("unknown_action", [type |-> "tap", x |-> 0, y |-> 0]),
           Act("keypress", [type |-> "keypress", keys |-> <<"ENTER">>]),
           Act("move", [type |-> "move", x |-> 500, y |-> 500]) }

\* The grid coordinates handed to normalize_x and normalize_y.
GridInputs == (0 - GridOver)..(COORDINATE_GRID_SIZE + GridOver)

DeviceInit ==
    /\ handler = FALSE
    /\ max_steps = 0
    /\ TaskStart
    /\ viewport \in Viewports \cup {None}
    /\ fp_low \in BOOLEAN
    /\ dpc = "idle"
    /\ function_call = None
    /\ agent_action = None
    /\ performed = None
    /\ grid_in = 0
    /\ pixel_out = 0
    /\ AgentIdle
    /\ BrowserIdle
    /\ SessionIdle

\* _map_function_to_action on a function call of the model (lines 590-615).
MapFunction(fc) ==
    /\ dpc = "idle"
    /\ function_call' = fc
    /\ agent_action' = _map_function_to_action(fc.name, fc.args)
    /\ dpc' = IF _map_function_to_action(fc.name, fc.args) = None
              THEN "dropped" ELSE "mapped"
    /\ UNCHANGED <<viewport, fp_low, performed, grid_in, pixel_out, taskVars, agentVars, browserVars, sessionVars>>

\* perform_action on the translated action; device call number fail raises e.
PerformMapped(fail, e) ==
    /\ dpc = "mapped"
    /\ performed' = perform_action(agent_action, fail, e)
    /\ dpc' = "performed"
    /\ UNCHANGED <<viewport, fp_low, function_call, agent_action, grid_in, pixel_out,
                   taskVars, agentVars, browserVars, sessionVars>>

\* perform_action on an action of the caller's making.
PerformDirect(a, fail, e) ==
    /\ dpc = "idle"
    /\ agent_action' = a
    /\ performed' = perform_action(a, fail, e)
    /\ dpc' = "performed"
    /\ UNCHANGED <<viewport, fp_low, function_call, grid_in, pixel_out, taskVars, agentVars, browserVars, sessionVars>>

\* normalize_x(g) on a connected client.
NormalizeX(g) ==
    /\ dpc = "idle"
    /\ viewport # None
    /\ grid_in' = g
    /\ pixel_out' = normalize_x(g)
    /\ dpc' = "normalized_x"
    /\ UNCHANGED <<viewport, fp_low, function_call, agent_action, performed, taskVars, agentVars, browserVars, sessionVars>>

\* normalize_y(g) on a connected client.
NormalizeY(g) ==
    /\ dpc = "idle"
    /\ viewport # None
    /\ grid_in' = g
    /\ pixel_out' = normalize_y(g)
    /\ dpc' = "normalized_y"
    /\ UNCHANGED <<viewport, fp_low, function_call, agent_action, performed, taskVars, agentVars, browserVars, sessionVars>>

DeviceNext ==
    \/ \E fc \in FunctionCallInputs : MapFunction(fc)
    \/ \E fail \in 0..MaxDeviceCalls, e \in DeviceErrors : PerformMapped(fail, e)
    \/ \E a \in DirectActions, fail \in 0..MaxDeviceCalls, e \in DeviceErrors :
          PerformDirect(a, fail, e)
    \/ \E g \in GridInputs : NormalizeX(g)
    \/ \E g \in GridInputs : NormalizeY(g)

DeviceSpec == DeviceInit /\ [][DeviceNext]_vars

(* --------------------- trimming a long history ------------------------- *)

\* Turns whose feedback can carry an error: in the middle region and among
\* the most recent turns.
ErrorSlots == {3, 5, 7, 9, 11, 13, 29, 45}

\* Turn i of a long history: the initial turn, then model turns and the
\* feedback turns of their actions in alternation; every turn carries i.
TurnAt(i, errs) ==
    IF i = 1 THEN _format_initial_messages(Instruction, 1)[1]
    ELSE IF i % 2 = 0
    THEN Candidate(<<TextPart(<<"turn ", ToString(i)>>), TapCall>>, "STOP").content
    ELSE _format_action_feedback("tap_at",
                                 IF i \in errs THEN Failure(<<"tap failed">>) ELSE Success,
                                 i)

\* self.history at the head of a step of a long task.
LongHistories ==
    { [i \in 1..n |-> TurnAt(i, errs)] :
          n \in (MAX_HISTORY_LENGTH - 1)..(MAX_HISTORY_LENGTH + MaxOver),
          errs \in SUBSET ErrorSlots }

\* run_task stands at the head of a step with a long history; trimming reads
\* nothing but the history.
TrimInit ==
    /\ handler = TRUE
    /\ max_steps = MaxSteps
    /\ pc = "loop_head"
    /\ history \in LongHistories
    /\ TaskFresh
    /\ DeviceIdle
    /\ AgentIdle
    /\ BrowserIdle
    /\ SessionIdle

\* Line 749: self._trim_history() at the head of the step.
TrimHistory ==
    /\ pc = "loop_head"
    /\ history' = _trim_history(history)
    /\ pc' = "trimmed"
    /\ UNCHANGED <<argVars, screenshots, actions_taken, usageVars, loopVars, parsedVars,
                   execVars, result, callVars, deviceVars, agentVars, browserVars, sessionVars>>

\* The turns one step adds to the history (lines 409-410 and 819-837): the
\* model turn with k function calls, then the feedback turn of each of the k
\* actions, all failed (err) or all successful.  Turn id is the model turn,
\* id + j the j-th feedback turn.
BatchTurns(id, k, err) ==
    << [role |-> "model",
        parts |-> [j \in 1..(k + 1) |->
                      IF j = 1 THEN TextPart(<<"turn ", ToString(id)>>) ELSE TapCall]] >>
      \o [j \in 1..k |->
             _format_action_feedback("tap_at",
                                     IF err THEN Failure(<<"tap failed">>) ELSE Success,
                                     id + j)]

\* The model turns of a long task: one call, two calls, or MaxBatch calls.
Batches ==
    { [k |-> 1, err |-> FALSE], [k |-> 2, err |-> TRUE],
      [k |-> MaxBatch, err |-> FALSE], [k |-> MaxBatch, err |-> TRUE] }

\* Lines 756-837 of a step that is not the last: the model is called with the
\* trimmed history and returns k calls, which are executed and answered; then
\* the next step begins.
LongStep(k, err) ==
    /\ pc = "trimmed"
    /\ InRange(step + 1, max_steps)
    /\ history' = history \o BatchTurns(100 * (step + 1), k, err)
    /\ step' = step + 1
    /\ pc' = "loop_head"
    /\ UNCHANGED <<argVars, screenshots, actions_taken, usageVars, attempt, last_error,
                   response, delays, errors, parsedVars, execVars, result, callVars,
                   deviceVars, agentVars, browserVars, sessionVars>>

TrimNext ==
    \/ TrimHistory
    \/ \E b \in Batches : LongStep(b.k, b.err)

TrimSpec == TrimInit /\ [][TrimNext]_vars

(* ------------------ a later execution on the same client --------------- *)

\* self.history as an earlier execution left it: after a failed first model
\* call, after a model turn, after a failed action, after a long task.
EarlierHistories ==
    { [i \in 1..n |-> TurnAt(i, {3})] : n \in {1, 2, 3, MAX_HISTORY_LENGTH + 1} }

\* run_task is called again on a client whose history holds the turns of an
\* earlier execution.
RerunInit ==
    /\ handler \in BOOLEAN
    /\ max_steps \in 0..MaxRerunSteps
    /\ pc = "start"
    /\ history \in EarlierHistories
    /\ screenshots = EarlierScreenshots
    /\ actions_taken = <<>>
    /\ total_input_tokens = 0
    /\ total_output_tokens = 0
    /\ step = 0
    /\ attempt = 0
    /\ last_error = <<>>
    /\ response = None
    /\ agent_actions = <<>>
    /\ function_info_list = <<>>
    /\ task_completed = FALSE
    /\ final_message = <<>>
    /\ idx = 0
    /\ action_result = None
    /\ result = None
    /\ delays = <<>>
    /\ errors = <<>>
    /\ nAttempts = 0
    /\ nResponses = 0
    /\ nExecuted = 0
    /\ everyStepActionable = TRUE
    /\ received = <<>>
    /\ handed = <<>>
    /\ DeviceIdle
    /\ AgentIdle
    /\ BrowserIdle
    /\ SessionIdle

RerunSpec == RerunInit /\ [][Next]_vars

(* ----------------------------- MobileAgent ----------------------------- *)

\* An AppiumClient, with a driver session or without one.
Client(driver) == [kind |-> "AppiumClient", driver |-> driver]
Handler == [kind |-> "MobileNavigationHandler"]
CuaClient == [kind |-> "GoogleMobileCUAClient"]

NotConnectedAgentError == <<"Not connected. Call connect() first.">>
ApiKeyError == <<"GEMINI_API_KEY not set. Provide via config or environment variable.">>
ConnectionError(e) == <<"Failed to connect to Appium server: ">> \o e

\* The methods decorated with _require_connection.
GuardedOps ==
    {"screenshot", "launch_app", "open_url", "go_home", "go_back", "get_orientation",
     "set_orientation", "get_page_source"}

\* How connect() fares on the device side: the driver cannot be created, the
\* viewport query of AppiumClient.connect fails, the viewport query of
\* MobileAgent.connect fails, or all of it works.
ConnectOutcomes == {"remote_fails", "client_viewport_fails", "viewport_fails", "ok"}

\* A call: its name, the exception it raised (<<>> when it returned) and the
\* number of device or model I/O calls it started.
CallRecord(op, exception, io) == [op |-> op, exception |-> exception, io |-> io]

\* A guard that looks at the component only.
NotConnected_component_only(connected, component) == component = None

\* "not self._connected or not self.appium_client" (and cua_client in execute)
NotConnected(connected, component) == ~connected \/ component = None

\* One more call is made on the agent.
Called(call) ==
    /\ ncalls < MaxCalls
    /\ ncalls' = ncalls + 1
    /\ last_call' = call
    /\ UNCHANGED api_key

AgentInit ==
    /\ handler = FALSE
    /\ max_steps = 0
    /\ TaskStart
    /\ DeviceIdle
    /\ AgentFresh
    /\ BrowserIdle
    /\ SessionIdle
    /\ api_key \in BOOLEAN

\* A connect() without the early return for a connected agent.
Connect_again(outcome, e) ==
    /\ outcome = "ok"
    /\ api_key
    /\ Called(CallRecord("connect", <<>>, 3))
    /\ appium_client' = Client(TRUE)
    /\ open_sessions' = open_sessions + 1
    /\ navigation_handler' = Handler
    /\ cua_client' = CuaClient
    /\ _connected' = TRUE
    /\ ever_connected' = TRUE

\* connect() (lines 119-217).
Connect(outcome, e) ==
    IF _connected
    THEN /\ Called(CallRecord("connect", <<>>, 0))
         /\ UNCHANGED <<_connected, appium_client, navigation_handler, cua_client,
                        open_sessions, ever_connected>>
    ELSE IF outcome = "remote_fails"
    THEN /\ Called(CallRecord("connect", ConnectionError(e), 1))
         /\ appium_client' = Client(FALSE)
         /\ UNCHANGED <<_connected, navigation_handler, cua_client, open_sessions,
                        ever_connected>>
    ELSE IF outcome = "client_viewport_fails"
    THEN /\ Called(CallRecord("connect", ConnectionError(e), 2))
         /\ appium_client' = Client(TRUE)
         /\ open_sessions' = open_sessions + 1
         /\ UNCHANGED <<_connected, navigation_handler, cua_client, ever_connected>>
    ELSE IF outcome = "viewport_fails"
    THEN /\ Called(CallRecord("connect", e, 3))
         /\ appium_client' = Client(TRUE)
         /\ open_sessions' = open_sessions + 1
         /\ UNCHANGED <<_connected, navigation_handler, cua_client, ever_connected>>
    ELSE IF ~api_key
    THEN /\ Called(CallRecord("connect", ApiKeyError, 3))
         /\ appium_client' = Client(TRUE)
         /\ open_sessions' = open_sessions + 1
         /\ navigation_handler' = Handler
         /\ UNCHANGED <<_connected, cua_client, ever_connected>>
    ELSE /\ Called(CallRecord("connect", <<>>, 3))
         /\ appium_client' = Client(TRUE)
         /\ open_sessions' = open_sessions + 1
         /\ navigation_handler' = Handler
         /\ cua_client' = CuaClient
         /\ _connected' = TRUE
         /\ ever_connected' = TRUE

\* disconnect() (lines 219-235); driver.quit may fail, which AppiumClient
\* logs and swallows.
Disconnect(quit_ok) ==
    IF ~_connected
    THEN /\ Called(CallRecord("disconnect", <<>>, 0))
         /\ UNCHANGED <<_connected, appium_client, navigation_handler, cua_client,
                        open_sessions, ever_connected>>
    ELSE /\ Called(CallRecord("disconnect", <<>>,
                              IF appium_client # None /\ appium_client.driver THEN 1 ELSE 0))
         /\ open_sessions' = IF appium_client # None /\ appium_client.driver /\ quit_ok
                             THEN open_sessions - 1 ELSE open_sessions
         /\ appium_client' = None
         /\ navigation_handler' = None
         /\ cua_client' = None
         /\ _connected' = FALSE
         /\ UNCHANGED ever_connected

\* execute() (lines 237-284): run_task returns a result, or raises e.
Execute(e) ==
    /\ Called(IF NotConnected(_connected, cua_client)
              THEN CallRecord("execute", NotConnectedAgentError, 0)
              ELSE CallRecord("execute", e, 1))
    /\ UNCHANGED <<_connected, appium_client, navigation_handler, cua_client,
                   open_sessions, ever_connected>>

\* A method behind _require_connection: the device call returns, or raises e.
Guarded(op, e) ==
    /\ Called(IF NotConnected(_connected, appium_client)
              THEN CallRecord(op, NotConnectedAgentError, 0)
              ELSE CallRecord(op, e, 1))
    /\ UNCHANGED <<_connected, appium_client, navigation_handler, cua_client,
                   open_sessions, ever_connected>>

AgentNext ==
    /\ UNCHANGED <<taskVars, deviceVars, browserVars, sessionVars>>
    /\ \/ \E outcome \in ConnectOutcomes, e \in DeviceErrors : Connect(outcome, e)
       \/ \E quit_ok \in BOOLEAN : Disconnect(quit_ok)
       \/ \E e \in DeviceErrors \cup {<<>>} : Execute(e)
       \/ \E op \in GuardedOps, e \in DeviceErrors \cup {<<>>} : Guarded(op, e)

AgentSpec == AgentInit /\ [][AgentNext]_vars

(* ------------------------- browser resources --------------------------- *)

\* What cleanup_browser_resources releases, in its order: the AWS browser
\* client, the context, the browser, the temporary user-data directory,
\* Playwright.
CleanupOrder == <<"browser_client", "context", "browser", "temp_user_data_dir", "playwright">>

\* The except block of connect_aws_agentcore_browser without the stop of the
\* browser client.
FailureCleanupOrder_no_stop == <<"context", "browser">>

\* What the except block of connect_aws_agentcore_browser releases.
FailureCleanupOrder == <<"context", "browser", "browser_client">>

Range(seq) == {seq[i] : i \in 1..Len(seq)}

ReleaseError(r) == <<"cannot release ", r>>

\* A release without its try/except.
TryRelease_unguarded(r, fails) ==
    [attempted |-> <<r>>,
     logged |-> <<>>,
     raised |-> IF r \in fails THEN ReleaseError(r) ELSE <<>>]

\* try: close/stop/remove r; except Exception: log it.
TryRelease(r, fails) ==
    [attempted |-> <<r>>,
     logged |-> IF r \in fails THEN <<ReleaseError(r)>> ELSE <<>>,
     raised |-> <<>>]

\* The "if r:" blocks one after the other; an exception that leaves a block
\* ends the sequence.
RECURSIVE ReleaseAll(_, _, _)
ReleaseAll(order, given, fails) ==
    IF order = <<>> THEN [attempted |-> <<>>, logged |-> <<>>, raised |-> <<>>]
    ELSE IF Head(order) \notin given THEN ReleaseAll(Tail(order), given, fails)
    ELSE LET one == TryRelease(Head(order), fails)
             rest == ReleaseAll(Tail(order), given, fails)
         IN  IF one.raised # <<>> THEN one
             ELSE [attempted |-> one.attempted \o rest.attempted,
                   logged |-> one.logged \o rest.logged,
                   raised |-> rest.raised]

cleanup_browser_resources(given, fails) == ReleaseAll(CleanupOrder, given, fails)

\* The steps of connect_aws_agentcore_browser that can raise, in order.
ConnectStages ==
    <<"aws_region", "BrowserClient", "start", "generate_ws_headers", "ws_url",
      "connect_over_cdp", "new_context", "StagehandContext.init", "page">>

Stage(s) == CHOOSE i \in 1..Len(ConnectStages) : ConnectStages[i] = s

\* The ways the connect can fail: a stage raises, or the CDP connect does not
\* answer within 30 seconds.
Failures == Range(ConnectStages) \cup {"timeout"}

FailedStage(fail) == IF fail = "timeout" THEN Stage("connect_over_cdp") ELSE Stage(fail)

\* start() is skipped when a session is resumed, new_context() when the
\* browser has a context already.
Executed(fail, resume, existing) ==
    /\ fail = "start" => ~resume
    /\ fail = "new_context" => ~existing

TimeoutError ==
    <<"AWS AgentCore Browser connection timeout after 30 seconds. ",
      "Check your network connection and AWS region availability.">>

\* The exception raised inside the try block.
StageError(fail) == IF fail = "timeout" THEN TimeoutError ELSE <<"failed: ", fail>>

\* browser_client, browser and context when the stage fails.
Acquired(fail, existing) ==
    (IF FailedStage(fail) > Stage("BrowserClient") THEN {"browser_client"} ELSE {})
    \cup (IF FailedStage(fail) > Stage("connect_over_cdp") THEN {"browser"} ELSE {})
    \cup (IF \/ FailedStage(fail) > Stage("new_context")
             \/ FailedStage(fail) > Stage("connect_over_cdp") /\ existing
          THEN {"context"} ELSE {})

Connected == {"browser", "context", "stagehand_context", "page", "browser_client"}

\* connect_aws_agentcore_browser (lines 114-288); the region is validated
\* before the try block, everything else fails inside it.
connect_aws_agentcore_browser(fail, existing, fails) ==
    IF fail = "none"
    THEN [held |-> Connected, attempted |-> <<>>, raised |-> <<>>]
    ELSE LET cleanup == ReleaseAll(FailureCleanupOrder, Acquired(fail, existing), fails)
         IN  [held |-> Acquired(fail, existing),
              attempted |-> cleanup.attempted,
              raised |-> IF cleanup.raised # <<>> THEN cleanup.raised
                         ELSE StageError(fail)]

BrowserInit ==
    /\ handler = FALSE
    /\ max_steps = 0
    /\ TaskStart
    /\ DeviceIdle
    /\ AgentIdle
    /\ BrowserIdle
    /\ SessionIdle

\* The connect returns its five objects, or fails at a stage.
ConnectAws(fail, resume, existing, fails) ==
    /\ bpc = "idle"
    /\ fail # "none" => Executed(fail, resume, existing)
    /\ fails \subseteq (IF fail = "none" THEN {} ELSE Acquired(fail, existing))
    /\ LET c == connect_aws_agentcore_browser(fail, existing, fails)
       IN  /\ held' = c.held
           /\ attempted' = c.attempted
           /\ raised' = c.raised
    /\ failing' = fails
    /\ failed_at' = fail
    /\ bpc' = IF fail = "none" THEN "connected" ELSE "failed"

\* cleanup_browser_resources on what a connect returned and Playwright, or on
\* any resources of the caller's.
Cleanup(given, fails) ==
    /\ \/ bpc = "idle"
       \/ bpc = "connected" /\ given = (held \cap Range(CleanupOrder)) \cup {"playwright"}
    /\ fails \subseteq given
    /\ LET c == cleanup_browser_resources(given, fails)
       IN  /\ attempted' = c.attempted
           /\ raised' = c.raised
    /\ held' = given
    /\ failing' = fails
    /\ bpc' = "cleaned"
    /\ UNCHANGED failed_at

BrowserNext ==
    /\ UNCHANGED <<taskVars, deviceVars, agentVars, sessionVars>>
    /\ \/ \E fail \in Failures \cup {"none"}, resume \in BOOLEAN, existing \in BOOLEAN,
             fails \in SUBSET Range(FailureCleanupOrder) :
               ConnectAws(fail, resume, existing, fails)
       \/ \E given \in SUBSET Range(CleanupOrder), fails \in SUBSET Range(CleanupOrder) :
               Cleanup(given, fails)

BrowserSpec == BrowserInit /\ [][BrowserNext]_vars

(* ------------------- two execute() calls on one agent ------------------ *)

\* A turn of self.history, tagged with the task that built it.
Turn(t, kind) == [task |-> t, kind |-> kind]

\* execute() (lines 237-284) passes its guard on the connected agent and
\* run_task runs up to its first await, the initial screenshot (line 737).
\* Nothing in execute or run_task waits for a running task.
Begin(t) ==
    /\ tasks[t] = "idle"
    /\ tasks' = [tasks EXCEPT ![t] = "initial_screenshot"]
    /\ UNCHANGED <<shared_history, contents, steps_made>>

\* The initial screenshot arrives: _format_initial_messages replaces
\* self.history (line 385), and the first step snapshots it for the model
\* call (line 767) and awaits the executor.  _trim_history leaves a history
\* of this length alone.
InitialScreenshotReturns(t) ==
    /\ tasks[t] = "initial_screenshot"
    /\ shared_history' = <<Turn(t, "initial")>>
    /\ contents' = [contents EXCEPT ![t] = <<Turn(t, "initial")>>]
    /\ tasks' = [tasks EXCEPT ![t] = "model_call"]
    /\ UNCHANGED steps_made

\* The model call returns: the model turn is appended to self.history (line
\* 410); with a function call the action is awaited, without one the task
\* ends.
ModelTurnReturns(t, call) ==
    /\ tasks[t] = "model_call"
    /\ shared_history' = Append(shared_history, Turn(t, "model"))
    /\ tasks' = [tasks EXCEPT ![t] = IF call THEN "perform_action" ELSE "returned"]
    /\ UNCHANGED <<contents, steps_made>>

\* perform_action returns and the screenshot is awaited (lines 826-829).
ActionReturns(t) ==
    /\ tasks[t] = "perform_action"
    /\ tasks' = [tasks EXCEPT ![t] = "screenshot"]
    /\ UNCHANGED <<shared_history, contents, steps_made>>

\* The screenshot arrives: the function-result turn is appended (lines
\* 832-837) and the next step snapshots self.history for its model call, or
\* the step budget is used up.
FeedbackAppended(t) ==
    /\ tasks[t] = "screenshot"
    /\ shared_history' = Append(shared_history, Turn(t, "feedback"))
    /\ steps_made' = [steps_made EXCEPT ![t] = steps_made[t] + 1]
    /\ IF steps_made[t] + 1 < MaxTaskSteps
       THEN /\ contents' = [contents EXCEPT ![t] = shared_history']
            /\ tasks' = [tasks EXCEPT ![t] = "model_call"]
       ELSE /\ tasks' = [tasks EXCEPT ![t] = "returned"]
            /\ UNCHANGED contents

SessionInit ==
    /\ handler = FALSE
    /\ max_steps = 0
    /\ TaskStart
    /\ DeviceIdle
    /\ AgentIdle
    /\ BrowserIdle
    /\ SessionIdle

SessionNext ==
    /\ UNCHANGED <<taskVars, deviceVars, agentVars, browserVars>>
    /\ \/ \E t \in TaskIds : Begin(t)
       \/ \E t \in TaskIds : InitialScreenshotReturns(t)
       \/ \E t \in TaskIds, call \in BOOLEAN : ModelTurnReturns(t, call)
       \/ \E t \in TaskIds : ActionReturns(t)
       \/ \E t \in TaskIds : FeedbackAppended(t)

SessionSpec == SessionInit /\ [][SessionNext]_vars

(* ------------------------------ claims --------------------------------- *)

Terminated == pc \in {"returned", "raised"}

\* The response of the current step, seen through the claims' words.
HasCandidate == response # None /\ response.candidates # <<>>
Parts == response.candidates[1].content.parts
Finish == response.candidates[1].finish_reason
NoFunctionCalls == \A i \in 1..Len(Parts) : Parts[i].function_call = None
HasText == \E i \in 1..Len(Parts) : Parts[i].text # <<>>
MalformedEmpty ==
    HasCandidate /\ NoFunctionCalls /\ ~HasText /\ Finish = "MALFORMED_FUNCTION_CALL"

\* C1: whatever the model returns or raises and whatever the actions'
\* outcomes, one run_task invocation comes to an end, and it never processes
\* more than max_steps model responses.  The invocation ends by returning an
\* AgentResult; the one other end is an exception of screenshot capture, which
\* is neither a model behaviour nor an action outcome (see C10).
C1_Terminates ==
    /\ [](nResponses <= max_steps)
    /\ <>Terminated
    /\ [](pc = "returned" => result # None)

C1_Witness ==
    /\ pc = "returned"
    /\ max_steps >= 2
    /\ nResponses = max_steps
    /\ nAttempts > nResponses

\* C2: if every step gets a response with a normal finish reason and at
\* least one translatable function call, run_task returns after exactly
\* max_steps responses with completed = false and "Max steps reached".
C2_MaxStepsReached ==
    (pc = "returned" /\ handler /\ everyStepActionable)
        => /\ nResponses = max_steps
           /\ result.completed = FALSE
           /\ result.message = <<"Max steps reached">>

C2_Witness ==
    /\ pc = "returned"
    /\ handler
    /\ everyStepActionable
    /\ max_steps >= 2
    /\ nResponses = max_steps
    /\ Len(actions_taken) > max_steps

\* C3 as stated: the model-call attempts of one invocation number at most
\* max_steps plus the retry cap.
C3_AttemptsAtMostStepsPlusCap == nAttempts <= max_steps + MAX_API_RETRIES

\* C3 as amended: every step makes at most MAX_API_RETRIES attempts, so the
\* attempts of one invocation number at most max_steps times MAX_API_RETRIES,
\* and at most max_steps of them return a response.
C3_AttemptsAtMostStepsTimesCap ==
    /\ attempt <= MAX_API_RETRIES
    /\ nAttempts <= max_steps * MAX_API_RETRIES
    /\ nResponses <= max_steps

C3_Witness ==
    /\ pc = "returned"
    /\ nAttempts = max_steps * MAX_API_RETRIES
    /\ nAttempts > max_steps + MAX_API_RETRIES

\* C4: when the model call raises on every attempt of a step, exactly 3
\* attempts were made in that step, with sleeps of 1 s then 2 s between them
\* and none after the last, and run_task returns completed = false with a
\* message that contains the last error; nothing is raised to the caller.
C4_RetryExhausted ==
    (response = None /\ attempt >= MAX_API_RETRIES)
        => /\ attempt = 3
           /\ Len(errors) = 3
           /\ delays = <<1, 2>>
           /\ pc = "returned"
           /\ result # None
           /\ result.completed = FALSE
           /\ \E i \in 1..Len(result.message) : result.message[i] = errors[3]
           /\ \A i \in 1..Len(result.message) :
                 result.message[i] \in Errors => result.message[i] = errors[3]

C4_Witness ==
    /\ response = None
    /\ attempt = MAX_API_RETRIES
    /\ pc = "returned"
    /\ step = 1
    /\ errors[1] # errors[3]
    /\ actions_taken # <<>>

\* C5: a response with a normal finish reason, no function call and some
\* reasoning text ends the task with completed = true and the reasoning text
\* as message, and no action is executed in that step (on the first step the
\* actions list is empty).
C5_Completion ==
    (HasCandidate /\ Finish \in NormalFinish /\ NoFunctionCalls /\ HasText)
        => /\ pc = "returned"
           /\ result.completed = TRUE
           /\ result.message = JoinText(Parts, 1, <<>>)
           /\ result.message # <<>>
           /\ nExecuted = 0
           /\ result.actions = actions_taken
           /\ (step = 0 => result.actions = <<>>)

C5_Witness ==
    /\ HasCandidate /\ Finish \in NormalFinish /\ NoFunctionCalls /\ HasText
    /\ pc = "returned"
    /\ step = 0
    /\ result.message = <<"Done">>
    /\ result.actions = <<>>

\* C6: a response with no function call, no reasoning text and no
\* malformed-function-call signal ends the task with completed = false and a
\* "no further actions" message.
C6_Stall ==
    (HasCandidate /\ Finish \in NormalFinish /\ NoFunctionCalls /\ ~HasText)
        => /\ pc = "returned"
           /\ result.completed = FALSE
           /\ result.message \in {<<"No further actions">>, <<"No actions from model">>}

\* C7: a response without candidates ends the task at that step as a
\* failure: no action is executed, completed = false and the message names
\* the missing candidates.
C7_NoCandidates ==
    (response # None /\ response.candidates = <<>>)
        => /\ pc = "returned"
           /\ nExecuted = 0
           /\ result.completed = FALSE
           /\ result.message = <<"Error: No candidates">>

\* C8: a response with an abnormal finish reason ends the task at that step
\* as a failure: completed = false, the message embeds the finish reason, and
\* no action of that response is executed.
C8_AbnormalFinish ==
    (HasCandidate /\ Finish \notin NormalFinish /\ ~MalformedEmpty)
        => /\ pc = "returned"
           /\ nExecuted = 0
           /\ result.completed = FALSE
           /\ \E i \in 1..Len(result.message) : result.message[i] = Finish

\* C9: a response with no function call, no reasoning text and finish reason
\* MALFORMED_FUNCTION_CALL, received while steps remain in the budget, does
\* not end the task: no feedback turn is appended and the loop goes on to the
\* next step.
C9_SoftRetry ==
    (MalformedEmpty /\ step + 1 < max_steps) => pc # "returned"

\* C10: once run_task has a handler, no exception leaves it: every execution
\* ends by returning an AgentResult with a completed flag and a message.
C10_NothingRaised ==
    handler => /\ pc # "raised"
               /\ pc = "returned" =>
                     (result.completed \in BOOLEAN /\ result.message # <<>>)

\* C11: when perform_action returns success = false for an action, the
\* function-result turn appended for that action carries the error text, the
\* remaining actions of the batch are still executed, and the loop goes on
\* to the next model call; the task ends after a failed action only because
\* the step budget is used up.
C11_FailureFedBack ==
    [][(pc = "screenshot" /\ ~action_result.success /\ pc' # "raised")
         => /\ Len(history') = Len(history) + 1
            /\ history'[Len(history')].role = "user"
            /\ history'[Len(history')].parts[1].function_response.response.error
                   = action_result.error
            /\ action_result.error # <<>>
            /\ IF idx < Len(agent_actions)
               THEN pc' = "perform_action" /\ idx' = idx + 1
               ELSE IF step + 1 < max_steps
               THEN pc' = "model_call" /\ step' = step + 1
               ELSE /\ pc' = "returned"
                    /\ result'.message = <<"Max steps reached">>]_vars

\* The first action of a batch of two failed, the second was executed, and
\* the loop stands at the next model call.
C11_Witness ==
    /\ pc = "model_call"
    /\ step = 1
    /\ Len(actions_taken) = 2
    /\ Len(history) = 4
    /\ history[3].parts[1].function_response.response.error = <<"tap failed">>
    /\ history[4].parts[1].function_response.response.error = <<>>

\* What perform_action was given and what it did.
Performed == dpc = "performed"
ActionType == agent_action.action_type
Calls == performed.calls

\* C12: perform_action never raises: for every action variant, an exception
\* of gesture synthesis (no viewport, no driver) or of a device-level call is
\* turned into ActionExecutionResult(success = false, error = str(e)).
C12_NeverRaises ==
    Performed =>
        /\ ~performed.raised
        /\ performed.result # None
        /\ performed.result.success \in BOOLEAN
        /\ performed.exception # <<>> =>
              performed.result = [success |-> FALSE, error |-> performed.exception]

\* send_keys of a type action raised after the focus tap and the delay.
C12_Witness ==
    /\ Performed
    /\ ActionType = "type"
    /\ performed.exception \in DeviceErrors
    /\ Len(Calls) = 3
    /\ Calls[3].op = "send_keys"
    /\ performed.result.success = FALSE

\* C13: perform_action on an action whose type is not a recognized variant
\* returns success = false with an error that names the type, makes no
\* device call and does not raise.
C13_UnsupportedType ==
    (Performed /\ ActionType \notin ActionTypes) =>
        /\ ~performed.raised
        /\ performed.result.success = FALSE
        /\ \E i \in 1..Len(performed.result.error) :
              performed.result.error[i] = ActionType
        /\ Calls = <<>>

C13_Witness ==
    /\ Performed
    /\ ActionType = "unknown_action"
    /\ viewport # None
    /\ performed.result.error = <<"Unsupported action type: ", "unknown_action">>

\* The coordinate fields of the action models.
CoordFields == {"x", "y", "start_x", "start_y", "end_x", "end_y", "center_x", "center_y"}

\* C15: for every function of the tool schema and every argument map, each
\* coordinate field of the action the translator produces lies in the
\* 0..1000 grid.
C15_CoordinatesOnGrid ==
    (function_call # None /\ agent_action # None) =>
        \A f \in DOMAIN agent_action.action \cap CoordFields :
            agent_action.action[f] \in 0..COORDINATE_GRID_SIZE

Normalized == dpc \in {"normalized_x", "normalized_y"}
Extent == IF dpc = "normalized_x" THEN viewport.width ELSE viewport.height
Normalize(g) == IF dpc = "normalized_x" THEN normalize_x(g) ELSE normalize_y(g)

\* C16: the normalizer clamps out-of-range grid input: for g < 0 it returns
\* normalize(0), for g > 1000 it returns normalize(1000), on both axes.
C16_ClampsOutOfRange ==
    Normalized =>
        /\ grid_in < 0 => pixel_out = Normalize(0)
        /\ grid_in > COORDINATE_GRID_SIZE => pixel_out = Normalize(COORDINATE_GRID_SIZE)

C18_MapsOntoValidPixels ==
    (Normalized /\ grid_in \in 0..COORDINATE_GRID_SIZE) =>
        /\ pixel_out = (grid_in * (Extent - 1)) \div COORDINATE_GRID_SIZE
        /\ pixel_out <= Extent - 1

\* The pointer sequence of a swipe that was performed on a connected client.
Swiped == Performed /\ ActionType = "swipe" /\ viewport # None
Pointer == Calls[1].pointer
Steps == (Len(Pointer) - 3) \div 2
Start == <<Pointer[1].x, Pointer[1].y>>
End == normalize_coordinates(agent_action.action.end_x, agent_action.action.end_y)
MoveAt(i) == Pointer[2 * i + 1]
PauseAt(i) == Pointer[2 * i + 2]

Between(a, b, c) == (a <= b /\ b <= c) \/ (c <= b /\ b <= a)
Abs(n) == IF n < 0 THEN 0 - n ELSE n

\* The point lies on the straight segment from Start to End.
OnSegment(m) ==
    /\ (m.x - Start[1]) * (End[2] - Start[2]) = (m.y - Start[2]) * (End[1] - Start[1])
    /\ Between(Start[1], m.x, End[1])
    /\ Between(Start[2], m.y, End[2])

\* The i-th move is within one pixel, in each coordinate, of the point at
\* i / Steps of the segment, and inside the box spanned by Start and End.
NearSegment(i) ==
    /\ Abs(MoveAt(i).x * Steps - (Start[1] * Steps + (End[1] - Start[1]) * i)) <= Steps
    /\ Abs(MoveAt(i).y * Steps - (Start[2] * Steps + (End[2] - Start[2]) * i)) <= Steps
    /\ Between(Start[1], MoveAt(i).x, End[1])
    /\ Between(Start[2], MoveAt(i).y, End[2])

\* press at the start point, Steps moves each followed by a pause, release.
SwipeShape ==
    /\ Len(Calls) = 1
    /\ Steps >= 10
    /\ Len(Pointer) = 2 * Steps + 3
    /\ Pointer[1].kind = "move"
    /\ Pointer[1] = Move(normalize_x(agent_action.action.start_x),
                         normalize_y(agent_action.action.start_y))
    /\ Pointer[2] = Down
    /\ Pointer[Len(Pointer)] = Up
    /\ \A i \in 1..Steps : MoveAt(i).kind = "move" /\ PauseAt(i).kind = "pause"
    /\ MoveAt(Steps) = Move(End[1], End[2])

\* C19 as stated: for a swipe of any requested duration the sequence is
\* press at the start point, moves that each lie on the straight segment
\* from start to end, the last one at the end point, every pause between
\* moves positive, then release.
C19_MovesOnSegment ==
    Swiped =>
        /\ SwipeShape
        /\ \A i \in 1..Steps : OnSegment(MoveAt(i))
        /\ \A i \in 1..Steps : PauseAt(i).num > 0 /\ PauseAt(i).den > 0

\* C19 as amended: the sequence is press at the start point, then
\* max(int(duration_s * 60), 10) moves, the i-th within one pixel per
\* coordinate of the point at i / steps of the segment (pixels are whole
\* numbers, the interpolated point is truncated) and inside the box spanned
\* by start and end, the last one at the end point, then release; the pauses
\* between moves are all duration / steps, positive exactly when the
\* requested duration is positive.
C19_MovesNearSegment ==
    Swiped =>
        /\ SwipeShape
        /\ \A i \in 1..Steps : NearSegment(i)
        /\ \A i \in 1..Steps :
              /\ PauseAt(i) = Pause(agent_action.action.duration_ms, 1000 * Steps)
              /\ PauseAt(i).num > 0 <=> agent_action.action.duration_ms > 0

\* A diagonal swipe of 300 ms on 393 x 852: from (98, 639) to (294, 213) in
\* 18 moves, the first to (108, 615), which is off the segment.
C19_Witness ==
    /\ Swiped
    /\ viewport.width = 393
    /\ performed.result.success
    /\ Start = <<98, 639>>
    /\ End = <<294, 213>>
    /\ Steps = 18
    /\ MoveAt(1) = Move(108, 615)
    /\ ~OnSegment(MoveAt(1))
    /\ PauseAt(1) = Pause(300, 18000)

\* C14: for a history longer than MAX_HISTORY_LENGTH = 50, after
\* _trim_history the first turn is still first, the most recent 20 turns are
\* present unchanged and in order at the end, and the length is at most
\* 1 + 5 + 20 = 26.
C14_TrimKeeps ==
    [][(pc = "loop_head" /\ Len(history) > MAX_HISTORY_LENGTH)
         => /\ history'[1] = history[1]
            /\ Len(history') >= keep_first + keep_recent
            /\ SubSeq(history', Len(history') - keep_recent + 1, Len(history'))
                  = SubSeq(history, Len(history) - keep_recent + 1, Len(history))
            /\ Len(history') <= 26
            /\ Len(history') <= keep_first + max_errors + keep_recent]_vars

\* A history of 53 turns was trimmed to the first turn, five error turns
\* and the last 20 turns.
C14_Witness ==
    /\ pc = "trimmed"
    /\ Len(history) = 26
    /\ history[1] = _format_initial_messages(Instruction, 1)[1]
    /\ \A i \in 2..6 : _has_error_response(history[i])
    /\ history[6] = TurnAt(11, {11})
    /\ history[7] = TurnAt(34, {})
    /\ history[26] = TurnAt(53, {})

\* C20: on a MobileAgent that is not connected (never connected, connected
\* and disconnected again, or left by a failed connect), execute, screenshot,
\* launch_app, open_url, go_home, go_back, get_orientation, set_orientation
\* and get_page_source each raise RuntimeError "Not connected" without any
\* model or device I/O and without changing the agent's state.
C20_NotConnectedRaises ==
    [][(ncalls' = ncalls + 1 /\ ~_connected
          /\ last_call'.op \in GuardedOps \cup {"execute"})
         => /\ last_call'.exception = <<"Not connected. Call connect() first.">>
            /\ last_call'.io = 0
            /\ UNCHANGED <<_connected, appium_client, navigation_handler, cua_client,
                           open_sessions>>]_vars

\* Connected, disconnected again, and then a guarded call was refused.
C20_Witness ==
    /\ ever_connected
    /\ ~_connected
    /\ appium_client = None
    /\ ncalls = 3
    /\ last_call.op = "get_page_source"
    /\ last_call.exception = NotConnectedAgentError
    /\ last_call.io = 0

\* C21: disconnect() is idempotent and never raises: whatever connect and
\* disconnect calls came before, after a disconnect() the agent is not
\* connected and appium_client, navigation_handler and cua_client are cleared,
\* even when the driver's quit fails; on an agent that is not connected,
\* disconnect() performs no device I/O.
C21_DisconnectClears ==
    [][(ncalls' = ncalls + 1 /\ last_call'.op = "disconnect")
         => /\ last_call'.exception = <<>>
            /\ ~_connected'
            /\ appium_client' = None
            /\ navigation_handler' = None
            /\ cua_client' = None
            /\ (~_connected => last_call'.io = 0)]_vars

\* C22: configuration errors (missing model credentials, execute before
\* connect) are raised before any network or device I/O is performed, in
\* particular before any Appium driver session is created.
C22_ConfigErrorsBeforeIO ==
    [][(/\ ncalls' = ncalls + 1
        /\ \/ last_call'.exception = ApiKeyError
           \/ last_call'.op = "execute" /\ last_call'.exception = NotConnectedAgentError)
         => /\ last_call'.io = 0
            /\ open_sessions' = open_sessions]_vars

\* The sum of one token count over the usage metadata of the responses
\* received; a response without usage metadata counts 0.
RECURSIVE SumCount(_, _)
SumCount(usages, count) ==
    IF usages = <<>> THEN 0
    ELSE (IF Head(usages) # None THEN Head(usages)[count] ELSE 0)
           + SumCount(Tail(usages), count)

\* C23: on every exit path of run_task the usage of the returned AgentResult
\* has input_tokens and output_tokens equal to the sums of the token counts of
\* all model responses received during the invocation.
C23_UsageIsSum ==
    pc = "returned"
      => /\ result.usage.input_tokens = SumCount(received, "prompt_token_count")
         /\ result.usage.output_tokens = SumCount(received, "candidates_token_count")

\* A step with token counts was followed by a step whose model call failed
\* three times: the API-error result still reports the first step's counts.
C23_Witness ==
    /\ pc = "returned"
    /\ result.message[1] = "API error after "
    /\ received = <<Usage>>
    /\ result.usage = [input_tokens |-> 1, output_tokens |-> 2]

\* C24: on every exit path of run_task the actions of the returned
\* AgentResult are exactly the actions handed to perform_action during the
\* invocation, in execution order across all steps, failed ones included.
C24_ActionsAreHanded ==
    pc = "returned"
      => /\ Len(result.actions) = Len(handed)
         /\ \A i \in 1..Len(handed) : result.actions[i] = handed[i].action

\* Three actions over two steps, one of which failed, all reported.
C24_Witness ==
    /\ pc = "returned"
    /\ result.message = <<"Max steps reached">>
    /\ Len(handed) = 3
    /\ handed[2].action_type = "function"
    /\ Len(result.actions) = 3
    /\ \E i \in 1..Len(history) : _has_error_response(history[i])

\* A function-result turn, and the screenshot it carries.
IsFeedback(turn) ==
    /\ turn.role = "user"
    /\ Len(turn.parts) = 1
    /\ "function_response" \in DOMAIN turn.parts[1]
FeedbackData(turn) == turn.parts[1].function_response.data

\* The calls of the current model turn that the translator accepts, in the
\* order the model returned them.
AcceptedCalls == SelectSeq(FunctionCalls(Parts), Translated)

\* C25: within one model turn the actions are executed in the order the model
\* returned them; each action is executed, then a fresh screenshot is taken,
\* then one function-result turn is appended, all before the next action of
\* the batch starts; the model turn is in history before its function-result
\* turns.
C25_BatchOrder ==
    pc \in {"perform_action", "screenshot"}
      => LET n == Len(history)
             k == idx - 1
         IN  /\ nExecuted = IF pc = "perform_action" THEN k ELSE k + 1
             /\ n > k
             /\ history[n - k] = response.candidates[1].content
             /\ \A j \in 1..k :
                   /\ IsFeedback(history[n - k + j])
                   /\ FeedbackData(history[n - k + j]) = screenshots - k + j
             /\ nExecuted <= Len(AcceptedCalls)
             /\ \A i \in 1..nExecuted :
                   handed[Len(handed) - nExecuted + i].action
                     = _map_function_to_action(AcceptedCalls[i].name,
                                               AcceptedCalls[i].args).action

\* The second action of a two-call turn is about to start: the first was
\* executed and its function-result turn, with a fresh screenshot, is the
\* last turn of the history.
C25_Witness ==
    /\ pc = "perform_action"
    /\ idx = 2
    /\ Parts = <<TapCall, BackCall>>
    /\ Len(history) = 3
    /\ history[2].parts = <<TapCall, BackCall>>
    /\ IsFeedback(history[3])
    /\ FeedbackData(history[3]) = 2
    /\ handed[1].action.type = "tap"

\* The function-result turns at the end of the history, after the last model
\* turn.
TrailingFeedback ==
    Cardinality({ i \in 1..Len(history) :
                    \A j \in i..Len(history) : IsFeedback(history[j]) })

\* C26: every function call of a model turn, also one with an unsupported
\* name or invalid arguments, gets a function-result turn in history before
\* the next model call, and such a call does not end the task: a turn with
\* function calls and a normal finish reason ends the task only by the step
\* budget.
C26_EveryCallAnswered ==
    (pc = "returned" /\ HasCandidate /\ Finish \in NormalFinish /\ ~NoFunctionCalls)
      => /\ result.message = <<"Max steps reached">>
         /\ TrailingFeedback = Len(FunctionCalls(Parts))

\* C27: at every model call of run_task the history passed to the model has
\* at most MAX_HISTORY_LENGTH = 50 turns, however many steps were made and
\* however many function calls a model turn carried.
C27_HistoryBounded ==
    pc = "trimmed" => Len(history) <= MAX_HISTORY_LENGTH

\* A turn with MaxBatch calls made the history longer than 50 turns; at the
\* model call of the next step it is short again.
C27_Witness ==
    /\ pc = "trimmed"
    /\ step = 1
    /\ Len(history) = 26
    /\ history[26] = BatchTurns(100, MaxBatch, TRUE)[MaxBatch + 1]
    /\ history[7] = BatchTurns(100, MaxBatch, TRUE)[MaxBatch - 18]

\* The turn with this id is the model turn that requested the feedback turn
\* carrying screenshot d: turn d - 1 in the initial history, the model turn
\* of the batch afterwards.
RequesterId(d) == IF d < 100 THEN d - 1 ELSE (d \div 100) * 100

IsModelTurn(turn, id) ==
    /\ turn.role = "model"
    /\ turn.parts[1].text = <<"turn ", ToString(id)>>

\* Every feedback turn of h comes after the model turn that requested it,
\* with nothing but feedback turns between the two.
Coherent(h) ==
    \A p \in 1..Len(h) :
        IsFeedback(h[p])
          => \E q \in 1..(p - 1) :
                /\ IsModelTurn(h[q], RequesterId(FeedbackData(h[p])))
                /\ \A m \in (q + 1)..(p - 1) : IsFeedback(h[m])

\* C28: after any _trim_history every function-result turn that remains in
\* the history is still preceded by the model turn that requested it, the
\* retained error-carrying turns and the first of the most recent 20 turns
\* included.
C28_NoOrphan ==
    pc = "trimmed" => Coherent(history)

\* A turn with a function response whose response has an error.
CarriesError(turn) ==
    /\ IsFeedback(turn)
    /\ turn.parts[1].function_response.response.error # <<>>

ErrorIndices(h) == { i \in 2..(Len(h) - 20) : CarriesError(h[i]) }

OldestErrors(h) ==
    LET errs == ErrorIndices(h)
    IN  { i \in errs : Cardinality({ j \in errs : j < i }) < 5 }

\* The positions of h that the reference keeps.
KeptIndices(h) ==
    IF Len(h) <= 50 THEN 1..Len(h)
    ELSE {1} \cup OldestErrors(h) \cup ((Len(h) - 19)..Len(h))

\* C29: _trim_history leaves a history of at most 50 turns unchanged;
\* otherwise the new history is the first turn, then the oldest up to 5
\* error-carrying turns of the middle region (positions 2 to length - 20), then
\* the last 20 turns: the kept turns in their original order, none twice, and
\* every other middle turn dropped.
C29_TrimIsReference ==
    [][pc = "loop_head"
         => LET kept == KeptIndices(history)
            IN  /\ Len(history') = Cardinality(kept)
                /\ \A i \in kept :
                      history'[Cardinality({ j \in kept : j <= i })] = history[i]
                /\ Cardinality({ history'[a] : a \in 1..Len(history') })
                      = Len(history')]_vars

\* A history of 52 turns with two errors in the middle region and one among
\* the recent turns was cut to the first turn, the two error turns and the
\* last 20 turns.
C29_Witness ==
    /\ pc = "trimmed"
    /\ step = 0
    /\ Len(history) = 23
    /\ history[2] = TurnAt(5, {5})
    /\ history[3] = TurnAt(29, {29})
    /\ history[4] = TurnAt(33, {})
    /\ history[16] = TurnAt(45, {45})
    /\ history[23] = TurnAt(52, {})

\* The turns of the earlier executions.
EarlierTurns == UNION { { h[i] : i \in 1..Len(h) } : h \in EarlierHistories }

\* C30: at the start of every run_task the history is reset to exactly one
\* turn, made of the system instructions, the task instruction and the
\* initial screenshot: no turn of an earlier execution on the same client is
\* in the history of a later execution when the model is called, whatever
\* the earlier execution left behind.
C30_HistoryReset ==
    pc \in {"model_call", "perform_action", "screenshot"}
      => /\ history[1] = [role |-> "user",
                          parts |-> <<[text |-> Instructions], [text |-> Instruction],
                                      [inline_data |-> EarlierScreenshots + 1]>>]
         /\ \A i \in 1..Len(history) : history[i] \notin EarlierTurns
         /\ (step = 0 /\ nResponses = 0 => Len(history) = 1)

\* The first model call of the later execution: the history is the one new
\* initial turn.
C30_Witness ==
    /\ pc = "model_call"
    /\ step = 0
    /\ nAttempts = 1
    /\ nResponses = 0
    /\ Len(history) = 1
    /\ history[1].parts[3] = format_screenshot(EarlierScreenshots + 1)
    /\ history[1] \notin EarlierTurns

\* The function call names a function of the tool schema and carries every
\* argument the schema requires.
SchemaValid(fc) ==
    /\ fc.name \in DOMAIN Required
    /\ Required[fc.name] \subseteq DOMAIN fc.args

\* The required arguments a mapper reads with a default: wait's seconds
\* (1) and scroll's direction ("down").
Defaulted(name) ==
    IF name = "wait" THEN {"seconds"} ELSE IF name = "scroll" THEN {"direction"} ELSE {}

\* The function call names a mapper and carries every argument the mapper
\* reads without a default.
Mappable(fc) ==
    /\ fc.name \in DOMAIN Required
    /\ (Required[fc.name] \ Defaulted(fc.name)) \subseteq DOMAIN fc.args

IsPrefix(a, b) == Len(a) <= Len(b) /\ a = SubSeq(b, 1, Len(a))

\* The device calls a type action is to make, in order.
TypeCalls(a) ==
    (IF "x" \in DOMAIN a /\ "y" \in DOMAIN a
     THEN << [op |-> "execute_touch_action",
              pointer |-> << [kind |-> "move",
                              x |-> normalize_x(a.x), y |-> normalize_y(a.y)],
                             [kind |-> "down"],
                             [kind |-> "pause", num |-> 5, den |-> 100],
                             [kind |-> "up"] >>],
             [op |-> "sleep", num |-> 2, den |-> 10] >>
     ELSE <<>>)
      \o << [op |-> "send_keys", text |-> a.text] >>
      \o (IF "press_enter_after" \in DOMAIN a /\ a.press_enter_after
          THEN << [op |-> "send_keys", text |-> "\n"] >> ELSE <<>>)

\* C32: a type action makes its device calls in this order: with both
\* coordinates, one focus tap (move, down, pause, up) at the normalized point
\* and a settle delay; then one send_keys with the text; then, only with
\* press_enter_after, a second send_keys with a newline.  Without coordinates
\* there is no touch action, without press_enter_after exactly one send_keys.
\* A call that fails ends the sequence; without a viewport a focus tap cannot
\* be placed and no call is made.
C32_TypeOrder ==
    (Performed /\ ActionType = "type")
      => IF /\ "x" \in DOMAIN agent_action.action
            /\ "y" \in DOMAIN agent_action.action
            /\ viewport = None
         THEN Calls = <<>> /\ ~performed.result.success
         ELSE /\ IsPrefix(Calls, TypeCalls(agent_action.action))
              /\ performed.result.success => Calls = TypeCalls(agent_action.action)

\* Focus tap, settle delay, the text, and the newline by itself.
C32_Witness ==
    /\ Performed
    /\ ActionType = "type"
    /\ performed.result.success
    /\ agent_action.action.press_enter_after
    /\ Len(Calls) = 4
    /\ Calls[1].op = "execute_touch_action"
    /\ Calls[3] = SendKeys("hi")
    /\ Calls[4] = SendKeys("\n")

\* C33: a driver session created by a connect() that then raised is released:
\* a disconnect() (or the context-manager exit, which calls it) on an agent
\* whose failed connect left a client holding a driver session quits that
\* session and lets go of the client.
C33_SessionReleased ==
    [][(/\ ncalls' = ncalls + 1
        /\ last_call'.op = "disconnect"
        /\ ~_connected
        /\ appium_client # None
        /\ appium_client.driver)
         => /\ open_sessions' = open_sessions - 1
            /\ appium_client' = None]_vars

\* C40: connect() on a connected agent is a no-op: it raises nothing, does no
\* I/O, creates no second Appium session and leaves appium_client,
\* navigation_handler, cua_client and is_connected as they were; and a
\* connected agent always has all three components set.
C40_ConnectIsNoOp ==
    /\ [](_connected => /\ appium_client # None
                        /\ navigation_handler # None
                        /\ cua_client # None)
    /\ [][(_connected /\ ncalls' = ncalls + 1 /\ last_call'.op = "connect")
            => /\ last_call'.exception = <<>>
               /\ last_call'.io = 0
               /\ open_sessions' = open_sessions
               /\ UNCHANGED <<_connected, appium_client, navigation_handler,
                              cua_client>>]_vars

\* A second connect() has returned on a connected agent with one session.
C40_Witness ==
    /\ _connected
    /\ ncalls >= 2
    /\ last_call = CallRecord("connect", <<>>, 0)
    /\ open_sessions = 1
    /\ appium_client = Client(TRUE)
    /\ navigation_handler = Handler
    /\ cua_client = CuaClient

\* A pointer sequence never presses while down nor releases while up, and
\* ends with the pointer up: its presses and releases alternate, the first of
\* them is a press and the last a release.
WellFormed(pointer) ==
    LET events == {j \in 1..Len(pointer) : pointer[j].kind \in {"down", "up"}}
        Last(S) == CHOOSE k \in S : \A m \in S : m <= k
    IN  /\ \A j \in events :
              LET before == {k \in events : k < j}
              IN  IF before = {} THEN pointer[j].kind = "down"
                  ELSE pointer[Last(before)].kind # pointer[j].kind
        /\ events # {} => pointer[Last(events)].kind = "up"

\* The point a single-pointer gesture of the action starts at.
Target(a) ==
    IF a.type = "swipe" THEN <<normalize_x(a.start_x), normalize_y(a.start_y)>>
    ELSE <<normalize_x(a.x), normalize_y(a.y)>>

\* C39: every single-pointer sequence the executor hands to the device (tap,
\* click, double tap, double click, long press, swipe, scroll, the focus tap
\* of type) first moves to the target point, presses at least once, never
\* presses while the pointer is down nor releases while it is up, and ends
\* with the pointer up.
C39_PointerWellFormed ==
    Performed
      => \A i \in 1..Len(Calls) :
            Calls[i].op = "execute_touch_action"
              => /\ Calls[i].pointer # <<>>
                 /\ Calls[i].pointer[1].kind = "move"
                 /\ <<Calls[i].pointer[1].x, Calls[i].pointer[1].y>>
                      = Target(agent_action.action)
                 /\ \E j \in 1..Len(Calls[i].pointer) : Calls[i].pointer[j].kind = "down"
                 /\ WellFormed(Calls[i].pointer)

\* A double tap was performed: two presses and two releases in one sequence.
C39_Witness ==
    /\ Performed
    /\ ActionType = "double_tap"
    /\ performed.result.success
    /\ Len(Calls) = 1
    /\ Calls[1].op = "execute_touch_action"
    /\ Cardinality({j \in 1..Len(Calls[1].pointer) : Calls[1].pointer[j].kind = "down"}) = 2
    /\ Cardinality({j \in 1..Len(Calls[1].pointer) : Calls[1].pointer[j].kind = "up"}) = 2

\* C38: a model call wait(seconds=s) with s > 0 makes the executor pause for s
\* seconds: the WaitAction carries s*1000 ms and that is the duration
\* _perform_wait sleeps.
C38_WaitDuration ==
    (/\ Performed
     /\ function_call # None
     /\ function_call.name = "wait"
     /\ "seconds" \in DOMAIN function_call.args
     /\ function_call.args.seconds > 0
     /\ performed.result.success)
      => /\ agent_action.action.miliseconds = function_call.args.seconds * 1000
         /\ Calls = <<Sleep(function_call.args.seconds * 1000, 1000)>>

\* C37: the function-result turn appended after executing an action names the
\* function call the action was translated from, also when an earlier call of
\* the same model turn was dropped by the translator.
C37_FeedbackNamesCall ==
    [][(pc = "screenshot" /\ Len(history') = Len(history) + 1)
         => /\ IsFeedback(history'[Len(history')])
            /\ history'[Len(history')].parts[1].function_response.name
                 = AcceptedCalls[idx].name]_vars

\* How often resource r was attempted to be released.
Attempts(r) == Cardinality({i \in 1..Len(attempted) : attempted[i] = r})

\* C34: cleanup_browser_resources attempts to release every resource it was
\* given (AWS browser client, context, browser, temporary user-data
\* directory, Playwright), each once and nothing else, even when releasing
\* an earlier one raises, and never raises itself.
C34_CleanupAttemptsAll ==
    bpc = "cleaned"
      => /\ raised = <<>>
         /\ \A r \in held : Attempts(r) = 1
         /\ Range(attempted) = held

\* All five resources were given and the first two could not be released;
\* the other three were still attempted.
C34_Witness ==
    /\ bpc = "cleaned"
    /\ held = Range(CleanupOrder)
    /\ failing = {"browser_client", "context"}
    /\ Len(attempted) = 5
    /\ attempted[5] = "playwright"
    /\ raised = <<>>

InFlight(t) == tasks[t] \in {"model_call", "perform_action", "screenshot"}

\* C36: a second execute() on the same agent cannot interleave with a running
\* one: while a task is in flight the history holds only turns of that task
\* (no other task resets it or appends to it), and every model call is given
\* only turns of its own task.
C36_NoInterleaving ==
    \A t \in TaskIds :
        /\ InFlight(t)
             => \A i \in 1..Len(shared_history) : shared_history[i].task = t
        /\ \A i \in 1..Len(contents[t]) : contents[t][i].task = t

====
